---- MODULE Spec2Model ----
(***************************************************************************)
(* Model of the registry / routing core of the Kit:                        *)
(*   - _KeyPool              (python-inference/src/ai_kit/hub.py)          *)
(*   - Kit capability calls  (python-inference/src/ai_kit/hub.py)          *)
(*   - ModelRegistry         (python/src/ai_kit/registry.py)               *)
(*   - errors, pricing, entitlements helpers                               *)
(* Optional[str] values use the string None, Optional[int] values use      *)
(* NoInt, optional records use the No... records defined below.            *)
(***************************************************************************)
EXTENDS Integers, Sequences, FiniteSets, TLC

VARIABLES
    pools,      \* Kit._key_pools: provider -> list of keys (_KeyPool._keys)
    index,      \* provider -> _KeyPool._index
    drawn,      \* provider -> keys returned by next() so far, in call order
    cache,      \* ModelRegistry._cache: cache key -> CacheEntry
    learned,    \* ModelRegistry._learned: learned key -> (expires_at, reason)
    now,        \* the wall clock read by _now_timestamp()
    last,       \* what the most recent call did and returned
    env,        \* os.environ["REPLICATE_API_TOKEN"] of the process
    inflight    \* caller -> the capability call it is in the middle of

vars == <<pools, index, drawn, cache, learned, now, last, env, inflight>>

None == "None"
NoInt == -1

(***************************************************************************)
(* Bounds of the model.                                                    *)
(***************************************************************************)
MaxKeys == 3        \* longest key list of a pool
MaxDraws == 4       \* next() calls, over all pools
MaxTime == 3        \* last clock value
TtlSeconds == 2     \* ttl_seconds given to the registry
LearnedTtlSeconds == 2   \* learned_ttl_seconds given to the registry
MaxRetries == 2     \* max_retries given to the ReplicateClient

(***************************************************************************)
(* _KeyPool                                                                *)
(***************************************************************************)
PoolKeys == {"k1", "k2", "k3", "k4"}

\* lists of distinct keys, as _collect_keys produces them
KeyLists ==
    UNION {{ks \in [1..n -> PoolKeys] :
              \A i, j \in 1..n : i # j => ks[i] # ks[j]} : n \in 0..MaxKeys}

\* the key next() returns: "" for an empty pool, else keys[index % len]
KeyPoolNextKey(keys, idx) ==
    IF Len(keys) = 0 THEN "" ELSE keys[(idx % Len(keys)) + 1]

KeyPoolNextIndexNoWrap(keys, idx) ==
    IF Len(keys) = 0 THEN idx
    ELSE IF idx + 1 >= Len(keys) THEN idx ELSE idx + 1

KeyPoolNextIndexStuck(keys, idx) == idx

KeyPoolNextIndexUnbounded(keys, idx) == idx + 1

\* the cursor next() leaves behind: unchanged for an empty pool
KeyPoolNextIndex(keys, idx) ==
    IF Len(keys) = 0 THEN idx ELSE (idx + 1) % Len(keys)

(***************************************************************************)
(* errors.py: unified errors.  A unified error (AiKitError) is a record    *)
(* with kit = TRUE; any other exception has kit = FALSE.  message is       *)
(* str(err).                                                               *)
(***************************************************************************)
UNKNOWN == "unknown_error"
PROVIDER_AUTH == "provider_auth_error"
PROVIDER_RATE_LIMIT == "provider_rate_limit"
PROVIDER_NOT_FOUND == "provider_not_found"
PROVIDER_UNAVAILABLE == "provider_unavailable"
VALIDATION == "validation_error"
UNSUPPORTED == "unsupported"
TIMEOUT == "timeout"

NoError == [kit |-> FALSE, kind |-> None, upstreamStatus |-> NoInt, message |-> None]

KitError(kind, message, status) ==
    [kit |-> TRUE, kind |-> kind, upstreamStatus |-> status, message |-> message]

OtherException(message) ==
    [kit |-> FALSE, kind |-> None, upstreamStatus |-> NoInt, message |-> message]

classify_status(status) ==
    IF status = NoInt THEN UNKNOWN
    ELSE IF status \in {401, 403} THEN PROVIDER_AUTH
    ELSE IF status = 404 THEN PROVIDER_NOT_FOUND
    ELSE IF status = 429 THEN PROVIDER_RATE_LIMIT
    ELSE IF status >= 500 THEN PROVIDER_UNAVAILABLE
    ELSE UNKNOWN

to_kit_error(err) ==
    IF err.kit THEN err ELSE KitError(UNKNOWN, err.message, NoInt)

\* request_json / request_stream: a response with status >= 400 raises a
\* unified error whose message is the response body, which may be empty
HttpError(status, body) == KitError(classify_status(status), body, status)

HttpBodies == {"", "upstream says no"}

(***************************************************************************)
(* entitlements.py and EntitlementContext                                  *)
(***************************************************************************)
\* str.strip() on the key texts of the model
Strip(s) ==
    CASE s = " k1 " -> "k1"
      [] s = "  " -> ""
      [] OTHER -> s

\* hashlib.sha256(...).hexdigest(): an injective stand-in that never
\* contains the key separator and never equals its argument
Sha256Hex(s) == "sha256(" \o s \o ")"

fingerprint_api_key(api_key) ==
    IF api_key = None \/ api_key = "" \/ Strip(api_key) = "" THEN ""
    ELSE Sha256Hex(Strip(api_key))

NoEnt == [none |-> TRUE]

Entitlement(provider, apiKey, fp, tenantId) ==
    [provider |-> provider, apiKey |-> apiKey, apiKeyFingerprint |-> fp,
     accountId |-> None, region |-> None, environment |-> None,
     tenantId |-> tenantId, userId |-> None]

\* Python's (x or "") on an Optional[str]
OrEmpty(s) == IF s = None THEN "" ELSE s

Falsy(s) == s = None \/ s = ""

(***************************************************************************)
(* The Kit's configuration (KitConfig): three configured providers, one    *)
(* pre-built adapter, no external adapter factory.  "xai" is a known       *)
(* provider that is not configured.                                        *)
(***************************************************************************)
Providers == {"openai", "bedrock", "replicate", "fal", "xai"}

\* KitConfig.providers: the raw api_key / api_keys of each provider config
ConfigProviders ==
    [openai |-> [api_key |-> " k1 ", api_keys |-> <<"k1", "k2", "  ">>],
     bedrock |-> [api_key |-> None, api_keys |-> <<>>],
     replicate |-> [api_key |-> "rk", api_keys |-> <<"rk2">>]]

\* the key order of Kit._adapters (dict insertion order)
AdapterOrder == <<"openai", "bedrock", "replicate", "fal">>

NoAdapter == [cls |-> None, api_key |-> None, origin |-> None]

Adapter(cls, api_key, origin) == [cls |-> cls, api_key |-> api_key, origin |-> origin]

\* KitConfig.adapters: adapters handed in ready-made
ConfigAdapters == [fal |-> Adapter("FalAdapter", "fk", "prebuilt")]

AdapterClass ==
    [openai |-> "OpenAIAdapter", bedrock |-> "BedrockAdapter",
     replicate |-> "ReplicateAdapter"]

\* the capability methods each adapter class defines (what hasattr sees)
Methods(adapter) ==
    CASE adapter.cls = "OpenAIAdapter" ->
            {"list_models", "generate", "generate_image", "generate_mesh",
             "generate_speech", "transcribe", "stream_generate"}
      [] adapter.cls = "BedrockAdapter" ->
            {"list_models", "generate", "generate_image", "generate_mesh",
             "transcribe", "stream_generate"}
      [] adapter.cls = "ReplicateAdapter" ->
            {"list_models", "generate", "generate_image", "generate_mesh",
             "generate_speech"}
      [] adapter.cls = "FalAdapter" -> {"list_models"}
      [] OTHER -> {}

\* the capability methods whose whole body raises UNSUPPORTED
StubMethods(adapter) ==
    CASE adapter.cls = "BedrockAdapter" ->
            {"generate_image", "generate_mesh", "transcribe"}
      [] adapter.cls = "ReplicateAdapter" ->
            {"generate", "generate_mesh", "generate_speech"}
      [] OTHER -> {}

\* an entry of api_keys that is not a str (a number, a dict)
NonString == "NonString"

RECURSIVE CollectFrom(_, _, _)
\* the loop of _collect_keys over [api_key, *api_keys]
CollectFrom(raws, i, keys) ==
    IF i > Len(raws) THEN keys
    ELSE LET trimmed == IF raws[i] \in {None, NonString} THEN "" ELSE Strip(raws[i]) IN
         IF trimmed = "" \/ \E j \in 1..Len(keys) : keys[j] = trimmed
         THEN CollectFrom(raws, i + 1, keys)
         ELSE CollectFrom(raws, i + 1, Append(keys, trimmed))

CollectKeysApiKeysFirst(cfg) ==
    CollectFrom(cfg.api_keys \o <<OrEmpty(cfg.api_key)>>, 1, <<>>)

\* Kit._collect_keys
CollectKeys(cfg) == CollectFrom(<<OrEmpty(cfg.api_key)>> \o cfg.api_keys, 1, <<>>)

\* Kit._prepare_providers: the key pools (providers with at least one key)
PreparedPools ==
    [p \in {q \in DOMAIN ConfigProviders : Len(CollectKeys(ConfigProviders[q])) > 0}
        |-> CollectKeys(ConfigProviders[p])]

\* Kit._prepare_providers: the normalized configs (api_key := keys[0])
PreparedProviders ==
    [p \in DOMAIN ConfigProviders |->
        IF p \in DOMAIN PreparedPools
        THEN [ConfigProviders[p] EXCEPT !.api_key = PreparedPools[p][1]]
        ELSE ConfigProviders[p]]

\* Kit._adapters: _build_adapters(self._providers) updated with config.adapters
StaticAdapters ==
    ConfigAdapters @@
    [p \in DOMAIN PreparedProviders |->
        Adapter(AdapterClass[p], PreparedProviders[p].api_key, "static")]

\* Kit._prepare_providers and _build_adapters for one provider config: the
\* keys collected, the pool and the static adapter built from them, or the
\* VALIDATION error of a provider that needs a key and has none
PrepareProvider(provider, cfg) ==
    LET keys == CollectKeys(cfg) IN
    IF Len(keys) = 0 /\ provider \notin {"ollama", "bedrock"}
    THEN [raised |-> TRUE,
          err |-> KitError(VALIDATION, "Provider " \o provider \o " api key is required",
                           NoInt),
          keys |-> keys, pool |-> <<>>, adapter |-> NoAdapter]
    ELSE [raised |-> FALSE, err |-> NoError, keys |-> keys, pool |-> keys,
          adapter |-> Adapter(AdapterClass[provider],
                              IF Len(keys) > 0 THEN keys[1] ELSE cfg.api_key,
                              "static")]

EntitlementForRawKey(provider, api_key) ==
    IF Falsy(api_key) THEN NoEnt
    ELSE Entitlement(provider, api_key, api_key, None)

\* Kit._entitlement_for_provider, given the key the pool returned
EntitlementFor(provider, api_key) ==
    IF Falsy(api_key) THEN NoEnt
    ELSE Entitlement(provider, api_key, fingerprint_api_key(api_key), None)

\* ReplicateAdapter.__init__: a config with a key writes it to the
\* environment of the process; adapters of the other classes keep the key
\* in their own config
EnvAfterConstruct(e, adapter) ==
    IF adapter.cls = "ReplicateAdapter" /\ adapter.origin # "prebuilt"
       /\ ~Falsy(adapter.api_key)
    THEN adapter.api_key
    ELSE e

\* the environment once Kit.__init__ has built the static adapters
EnvAfterInit ==
    IF "replicate" \in DOMAIN PreparedProviders
    THEN EnvAfterConstruct("", StaticAdapters["replicate"])
    ELSE ""

\* the credential an upstream request of the adapter carries: the Replicate
\* client resolves it from the environment when it sends the request, the
\* other adapters send the key of their config
Credential(e, adapter) ==
    IF adapter.cls = "ReplicateAdapter" THEN e ELSE adapter.api_key

\* the callers that can be inside the Kit at the same time
Threads == {"t1", "t2"}

\* a caller that is not inside a capability call
Idle == [pc |-> "idle"]

\* KitConfig.adapter_factory: an external factory is configured or not, and
\* a configured one returns an adapter of its own for the providers it serves
\* and None for every other provider
NoFactory == [configured |-> FALSE, serves |-> {}]

ExternalAdapter(external, provider, ent) ==
    IF provider \in external.serves
    THEN Adapter("ExternalAdapter", IF ent = NoEnt THEN None ELSE ent.apiKey, "external")
    ELSE NoAdapter

\* Kit._adapter_factory below the external factory: the static adapter
\* without an entitlement key, else a new adapter from the base config
InternalAdapter(provider, ent) ==
    IF ent = NoEnt \/ Falsy(ent.apiKey)
    THEN IF provider \in DOMAIN StaticAdapters THEN StaticAdapters[provider]
         ELSE NoAdapter
    ELSE IF provider \notin DOMAIN PreparedProviders THEN NoAdapter
    ELSE IF provider = "bedrock"
         THEN Adapter("BedrockAdapter", PreparedProviders[provider].api_key, "entitlement")
    ELSE IF provider \in DOMAIN AdapterClass
         THEN Adapter(AdapterClass[provider], ent.apiKey, "entitlement")
    ELSE NoAdapter

ResolveAdapterInternalFirst(external, provider, ent) ==
    IF InternalAdapter(provider, ent) # NoAdapter THEN InternalAdapter(provider, ent)
    ELSE IF external.configured THEN ExternalAdapter(external, provider, ent)
    ELSE NoAdapter

\* Kit._adapter_factory of a Kit whose adapter_factory is external
ResolveAdapter(external, provider, ent) ==
    IF external.configured /\ ExternalAdapter(external, provider, ent) # NoAdapter
    THEN ExternalAdapter(external, provider, ent)
    ELSE InternalAdapter(provider, ent)

\* the Kit of the model has no external factory
ConfigAdapterFactory == NoFactory

\* Kit._adapter_factory
AdapterFactory(provider, ent) == ResolveAdapter(ConfigAdapterFactory, provider, ent)

(***************************************************************************)
(* pricing.py: the curated metadata table and its lookups.  A model id is  *)
(* a sequence of text pieces, so that str.startswith is "is a prefix of";  *)
(* ModelText is the id as one string.  Token prices are whole USD per      *)
(* million tokens, audio prices are millionths of a USD per minute, and    *)
(* costs are in millionths of a USD (the 6 digits round() keeps).          *)
(***************************************************************************)
RECURSIVE ModelText(_)
ModelText(id) == IF Len(id) = 0 THEN "" ELSE Head(id) \o ModelText(Tail(id))

StartsWith(id, prefix) ==
    /\ Len(prefix) <= Len(id)
    /\ \A i \in 1..Len(prefix) : id[i] = prefix[i]

NoPrices == [none |-> TRUE]
TokenPrices(input, output) == [input |-> input, output |-> output]

NoCurated == [none |-> TRUE]

\* load_scraped_models(): the entries of the curated JSON files
CuratedModels ==
    << [provider |-> "openai", id |-> <<"gpt-4o">>, displayName |-> "GPT-4o",
        tokenPrices |-> TokenPrices(5, 15), audioPerMinute |-> NoInt],
       [provider |-> "openai", id |-> <<"gpt-4o", "-mini">>, displayName |-> None,
        tokenPrices |-> TokenPrices(0, 0), audioPerMinute |-> NoInt],
       [provider |-> "openai", id |-> <<"o1">>, displayName |-> None,
        tokenPrices |-> NoPrices, audioPerMinute |-> NoInt],
       [provider |-> "openai", id |-> <<"whisper-1">>, displayName |-> None,
        tokenPrices |-> NoPrices, audioPerMinute |-> 6000],
       [provider |-> "bedrock", id |-> <<"claude-3">>, displayName |-> None,
        tokenPrices |-> TokenPrices(3, NoInt), audioPerMinute |-> NoInt] >>

\* _normalize_model_id: drop a leading "<provider>/"
NormalizeModelId(provider, id) ==
    IF Len(id) > 0 /\ Head(id) = provider \o "/" THEN Tail(id) ELSE id

RECURSIVE FindCuratedFrom(_, _, _, _)
\* the loop of find_curated_model: an exact id wins at once, otherwise the
\* entry with the longest id that is a prefix of the normalized id
FindCuratedFrom(provider, normalized, i, best) ==
    IF i > Len(CuratedModels) THEN best
    ELSE LET entry == CuratedModels[i] IN
         IF entry.provider # provider
         THEN FindCuratedFrom(provider, normalized, i + 1, best)
         ELSE IF entry.id = normalized THEN entry
         ELSE IF StartsWith(normalized, entry.id)
                 /\ (best = NoCurated
                     \/ Len(ModelText(entry.id)) > Len(ModelText(best.id)))
              THEN FindCuratedFrom(provider, normalized, i + 1, entry)
              ELSE FindCuratedFrom(provider, normalized, i + 1, best)

find_curated_model(provider, id) ==
    FindCuratedFrom(provider, NormalizeModelId(provider, id), 1, NoCurated)

lookup_token_prices(provider, id) ==
    LET curated == find_curated_model(provider, id) IN
    IF curated = NoCurated THEN NoPrices
    ELSE curated.tokenPrices

ModelMetadata(provider, id, displayName) ==
    [id |-> id, displayName |-> displayName, provider |-> provider,
     tokenPrices |-> NoPrices]

\* apply_curated_metadata: a new value with displayName and tokenPrices
\* taken from the curated entry where it has them
apply_curated_metadata(model) ==
    LET curated == find_curated_model(model.provider, model.id) IN
    IF curated = NoCurated THEN model
    ELSE [model EXCEPT
            !.displayName = IF Falsy(curated.displayName) THEN model.displayName
                            ELSE curated.displayName,
            !.tokenPrices =
                IF curated.tokenPrices = NoPrices THEN model.tokenPrices
                ELSE TokenPrices(
                        IF curated.tokenPrices.input = NoInt /\ model.tokenPrices # NoPrices
                        THEN model.tokenPrices.input ELSE curated.tokenPrices.input,
                        IF curated.tokenPrices.output = NoInt /\ model.tokenPrices # NoPrices
                        THEN model.tokenPrices.output ELSE curated.tokenPrices.output)]

(***************************************************************************)
(* Python's order on the strings the model sorts by, and sorted()          *)
(***************************************************************************)
StrOrder == <<"", "GPT-4o", "bedrock", "claude-3", "fal", "fal-video", "gpt-4o",
              "gpt-4o-mini", "o1", "openai", "replicate", "whisper-1", "xai">>

StrRank(s) == CHOOSE i \in 1..Len(StrOrder) : StrOrder[i] = s

KeyLessByNameOnly(a, b) ==
    StrRank(OrEmpty(a.displayName)) < StrRank(OrEmpty(b.displayName))

\* (provider, displayName or "") compared as Python compares tuples
KeyLess(a, b) ==
    \/ StrRank(a.provider) < StrRank(b.provider)
    \/ /\ a.provider = b.provider
       /\ StrRank(OrEmpty(a.displayName)) < StrRank(OrEmpty(b.displayName))

RECURSIVE InsertSorted(_, _)
\* x goes after every element that is not greater than it (stable)
InsertSorted(sorted, x) ==
    IF Len(sorted) = 0 THEN <<x>>
    ELSE IF KeyLess(x, Head(sorted)) THEN <<x>> \o sorted
    ELSE <<Head(sorted)>> \o InsertSorted(Tail(sorted), x)

RECURSIVE Sorted(_)
Sorted(seq) ==
    IF Len(seq) = 0 THEN <<>>
    ELSE InsertSorted(Sorted(SubSeq(seq, 1, Len(seq) - 1)), seq[Len(seq)])

(***************************************************************************)
(* registry.py: ModelRegistry, as the Kit builds it (adapters = the static *)
(* adapter map, adapter_factory = Kit._adapter_factory)                    *)
(***************************************************************************)
NoEntry == [none |-> TRUE]
NoLearned == [none |-> TRUE]

CacheEntry(data, fetched_at, expires_at) ==
    [data |-> data, fetched_at |-> fetched_at, expires_at |-> expires_at]

EntField(ent, f) == IF ent = NoEnt THEN "" ELSE OrEmpty(ent[f])

KeyFingerprintIgnored(ent) == "default"

\* the fingerprint part of the key: the entitlement's fingerprint, else the
\* fingerprint of its key, else "default"
KeyFingerprint(ent) ==
    IF ent = NoEnt THEN "default"
    ELSE IF ~Falsy(ent.apiKeyFingerprint) THEN ent.apiKeyFingerprint
    ELSE IF ~Falsy(fingerprint_api_key(ent.apiKey)) THEN fingerprint_api_key(ent.apiKey)
    ELSE "default"

\* ModelRegistry._cache_key: the seven parts joined by "|"
CacheKey(provider, ent) ==
    provider \o "|" \o KeyFingerprint(ent) \o "|" \o EntField(ent, "accountId")
    \o "|" \o EntField(ent, "region") \o "|" \o EntField(ent, "environment")
    \o "|" \o EntField(ent, "tenantId") \o "|" \o EntField(ent, "userId")

\* ModelRegistry._learned_key
LearnedKey(provider, ent, model_id) ==
    CacheKey(provider, ent) \o "|" \o model_id

\* self._cache.get(key)
CacheGet(c, key) == IF key \in DOMAIN c THEN c[key] ELSE NoEntry

\* self._learned.get(key)
LearnedGet(l, key) == IF key \in DOMAIN l THEN l[key] ELSE NoLearned

\* s with the keys in ks removed
Without(f, ks) == [k \in DOMAIN f \ ks |-> f[k]]

CachedIsLiveInclusive(cached, t) == cached # NoEntry /\ cached.expires_at >= t

\* _for_provider, first test: "cached and cached.expires_at > now"
CachedIsLive(cached, t) == cached # NoEntry /\ cached.expires_at > t

FallbackIsServableWhenStale(cached, t) == cached # NoEntry

\* _for_provider, test in the except branch: the same comparison again
FallbackIsServable(cached, t) == cached # NoEntry /\ cached.expires_at > t

\* ModelRegistry._adapter_for
AdapterFor(provider, ent) == AdapterFactory(provider, ent)

\* what adapter.list_models() does in one call: return a listing or raise
Returned(models) == [raised |-> FALSE, models |-> models, err |-> NoError]
Raised(err) == [raised |-> TRUE, models |-> <<>>, err |-> err]

RECURSIVE MapCurated(_)
MapCurated(models) ==
    IF Len(models) = 0 THEN <<>>
    ELSE <<apply_curated_metadata(Head(models))>> \o MapCurated(Tail(models))

FetchAndCacheStoringFailure(c, provider, ent, key, t, outcome) ==
    IF AdapterFor(provider, ent) = NoAdapter
    THEN [cache |-> c, raised |-> TRUE, entry |-> NoEntry, called |-> FALSE,
          failed |-> FALSE,
          err |-> KitError(VALIDATION, "Provider " \o provider \o " is not configured", NoInt)]
    ELSE LET entry == CacheEntry(MapCurated(outcome.models), t, t + TtlSeconds) IN
         [cache |-> (key :> entry) @@ c, raised |-> outcome.raised,
          entry |-> IF outcome.raised THEN NoEntry ELSE entry,
          called |-> TRUE, failed |-> FALSE, err |-> outcome.err]

\* ModelRegistry._fetch_and_cache; called tells whether adapter.list_models
\* ran, and (called and raised) that it raised
FetchAndCache(c, provider, ent, key, t, outcome) ==
    IF AdapterFor(provider, ent) = NoAdapter
    THEN [cache |-> c, raised |-> TRUE, entry |-> NoEntry, called |-> FALSE,
          failed |-> FALSE,
          err |-> KitError(VALIDATION, "Provider " \o provider \o " is not configured", NoInt)]
    ELSE IF outcome.raised
    THEN [cache |-> c, raised |-> TRUE, entry |-> NoEntry, called |-> TRUE,
          failed |-> FALSE, err |-> outcome.err]
    ELSE LET entry == CacheEntry(MapCurated(outcome.models), t, t + TtlSeconds) IN
         [cache |-> (key :> entry) @@ c, raised |-> FALSE, entry |-> entry,
          called |-> TRUE, failed |-> FALSE, err |-> NoError]

ForProviderSkippingFailure(c, provider, refresh, ent, t, outcome) ==
    LET key == CacheKey(provider, ent) IN
    IF ~refresh /\ CachedIsLive(CacheGet(c, key), t)
    THEN [cache |-> c, raised |-> FALSE, entry |-> CacheGet(c, key),
          called |-> FALSE, failed |-> FALSE, err |-> NoError]
    ELSE LET f == FetchAndCache(c, provider, ent, key, t, outcome) IN
         IF ~f.raised THEN f
         ELSE IF FallbackIsServable(CacheGet(c, key), t)
              THEN [f EXCEPT !.raised = FALSE, !.entry = CacheGet(c, key),
                             !.err = NoError, !.failed = f.called]
              ELSE [f EXCEPT !.raised = ~f.called, !.entry = CacheEntry(<<>>, t, t),
                             !.failed = f.called]

\* ModelRegistry._for_provider
ForProvider(c, provider, refresh, ent, t, outcome) ==
    LET key == CacheKey(provider, ent) IN
    IF ~refresh /\ CachedIsLive(CacheGet(c, key), t)
    THEN [cache |-> c, raised |-> FALSE, entry |-> CacheGet(c, key),
          called |-> FALSE, failed |-> FALSE, err |-> NoError]
    ELSE LET f == FetchAndCache(c, provider, ent, key, t, outcome) IN
         IF ~f.raised THEN f
         ELSE IF FallbackIsServable(CacheGet(c, key), t)
              THEN [f EXCEPT !.raised = FALSE, !.entry = CacheGet(c, key),
                             !.err = NoError, !.failed = f.called]
              ELSE [f EXCEPT !.failed = f.called]

\* ModelRegistry._resolve_providers of a registry whose adapter dict has
\* the keys order
ResolveProvidersOf(order, providers, ent) ==
    IF Len(providers) > 0 THEN providers
    ELSE IF ent # NoEnt /\ ~Falsy(ent.provider) THEN <<ent.provider>>
    ELSE order

\* ModelRegistry._resolve_providers of the Kit's registry
ResolveProviders(providers, ent) == ResolveProvidersOf(AdapterOrder, providers, ent)

RECURSIVE EntriesFrom(_, _, _, _, _, _, _)
\* the loop of _entries_for_providers; acc carries the cache, the entries
\* by provider (results), the providers in first-insertion order, the
\* providers whose adapter.list_models was called and those where it raised
EntriesFrom(acc, resolved, i, refresh, ent, t, outcomes) ==
    IF i > Len(resolved) THEN acc
    ELSE LET p == resolved[i]
             r == ForProvider(acc.cache, p, refresh, ent, t, outcomes[i])
             called == IF r.called THEN Append(acc.called, p) ELSE acc.called
             failed == IF r.failed THEN Append(acc.failed, p) ELSE acc.failed
         IN
         IF r.raised
         THEN [acc EXCEPT !.cache = r.cache, !.raised = TRUE, !.err = r.err,
                          !.called = called, !.failed = failed]
         ELSE EntriesFrom(
                [acc EXCEPT !.cache = r.cache,
                            !.results = (p :> r.entry) @@ acc.results,
                            !.order = IF p \in DOMAIN acc.results THEN acc.order
                                      ELSE Append(acc.order, p),
                            !.called = called, !.failed = failed],
                resolved, i + 1, refresh, ent, t, outcomes)

EntriesForProvidersOrEmpty(order, c, providers, refresh, ent, t, outcomes) ==
    LET resolved == ResolveProvidersOf(order, providers, ent)
        start == [cache |-> c, raised |-> FALSE, err |-> NoError, results |-> <<>>,
                  order |-> <<>>, called |-> <<>>, failed |-> <<>>]
    IN EntriesFrom(start, resolved, 1, refresh, ent, t, outcomes)

\* ModelRegistry._entries_for_providers of a registry whose adapter dict
\* has the keys order
EntriesForProvidersOf(order, c, providers, refresh, ent, t, outcomes) ==
    LET resolved == ResolveProvidersOf(order, providers, ent)
        start == [cache |-> c, raised |-> FALSE, err |-> NoError, results |-> <<>>,
                  order |-> <<>>, called |-> <<>>, failed |-> <<>>]
    IN
    IF Len(resolved) = 0
    THEN [start EXCEPT !.raised = TRUE,
                       !.err = KitError(VALIDATION, "No providers configured", NoInt)]
    ELSE EntriesFrom(start, resolved, 1, refresh, ent, t, outcomes)

\* ModelRegistry._entries_for_providers of the Kit's registry
EntriesForProviders(c, providers, refresh, ent, t, outcomes) ==
    EntriesForProvidersOf(AdapterOrder, c, providers, refresh, ent, t, outcomes)

RECURSIVE ExtendAll(_, _)
\* models.extend(entry.data) for every entry, in dict order
ExtendAll(results, order) ==
    IF Len(order) = 0 THEN <<>>
    ELSE results[Head(order)].data \o ExtendAll(results, Tail(order))

LearnReasonWithRateLimit(err) ==
    IF err.kit /\ (err.kind \in {PROVIDER_NOT_FOUND, VALIDATION, PROVIDER_RATE_LIMIT}
                   \/ err.upstreamStatus \in {400, 403, 404})
    THEN err.message ELSE None

\* _learn_reason: str(err) for the failures that are recorded, else None
LearnReason(err) ==
    IF err.kit
    THEN IF err.kind \in {PROVIDER_NOT_FOUND, VALIDATION} THEN err.message
         ELSE IF err.upstreamStatus \in {400, 403, 404} THEN err.message
         ELSE None
    ELSE None

\* ModelRegistry.learn_model_unavailable: the learned map it leaves behind
LearnModelUnavailable(l, ent, provider, model_id, err, t) ==
    LET reason == LearnReason(err) IN
    IF Falsy(reason) THEN l
    ELSE (LearnedKey(provider, ent, model_id)
            :> [expires_at |-> t + LearnedTtlSeconds, reason |-> reason]) @@ l

LearnedStatusNeverExpires(l, provider, ent, model_id, t) ==
    LET entry == LearnedGet(l, LearnedKey(provider, ent, model_id)) IN
    IF entry = NoLearned THEN [learned |-> l, reason |-> None]
    ELSE [learned |-> l, reason |-> entry.reason]

\* ModelRegistry._learned_status: the reason of a live entry, else None; an
\* expired entry is removed from the map
LearnedStatus(l, provider, ent, model_id, t) ==
    LET key == LearnedKey(provider, ent, model_id)
        entry == LearnedGet(l, key)
    IN
    IF entry = NoLearned THEN [learned |-> l, reason |-> None]
    ELSE IF entry.expires_at < t
         THEN [learned |-> Without(l, {key}), reason |-> None]
         ELSE [learned |-> l, reason |-> entry.reason]

Availability(entitled, confidence, reason, lastVerifiedAt) ==
    [entitled |-> entitled, confidence |-> confidence, reason |-> reason,
     lastVerifiedAt |-> lastVerifiedAt]

\* ModelRegistry._to_record, with the learned map it leaves behind
ToRecord(l, model, provider, fetched_at, ent, t) ==
    LET status == LearnedStatus(l, provider, ent, ModelText(model.id), t) IN
    [learned |-> status.learned,
     record |->
        [id |-> provider \o ":" \o ModelText(model.id),
         provider |-> provider,
         providerModelId |-> model.id,
         displayName |-> model.displayName,
         pricing |-> model.tokenPrices,
         availability |->
            IF ~Falsy(status.reason)
            THEN Availability(FALSE, "learned", status.reason, fetched_at)
            ELSE Availability(TRUE, "listed", None, fetched_at)]]

RECURSIVE RecordsOfEntry(_, _, _, _, _, _, _)
\* the inner loop of list_model_records over entry.data
RecordsOfEntry(acc, data, i, provider, fetched_at, ent, t) ==
    IF i > Len(data) THEN acc
    ELSE LET r == ToRecord(acc.learned, data[i], provider, fetched_at, ent, t) IN
         RecordsOfEntry([learned |-> r.learned, records |-> Append(acc.records, r.record)],
                        data, i + 1, provider, fetched_at, ent, t)

RECURSIVE RecordsOfEntries(_, _, _, _, _)
\* the outer loop of list_model_records over entries.items()
RecordsOfEntries(acc, results, order, ent, t) ==
    IF Len(order) = 0 THEN acc
    ELSE RecordsOfEntries(
            RecordsOfEntry(acc, results[Head(order)].data, 1, Head(order),
                           results[Head(order)].fetched_at, ent, t),
            results, Tail(order), ent, t)

(***************************************************************************)
(* Cost estimation (pricing.py) and the outputs it is attached to          *)
(***************************************************************************)
NoUsage == [none |-> TRUE]
Usage(inputTokens, outputTokens) ==
    [inputTokens |-> inputTokens, outputTokens |-> outputTokens]

NoCost == [none |-> TRUE]
CostBreakdown(input_cost, output_cost, total_cost, pricing) ==
    [input_cost_usd |-> input_cost, output_cost_usd |-> output_cost,
     total_cost_usd |-> total_cost, pricing_per_million |-> pricing]

NoOutput == [none |-> TRUE]

\* the outputs adapters build: none of them sets cost
GenerateOutput(text, usage) ==
    [text |-> text, usage |-> usage, finishReason |-> "stop", cost |-> NoCost]

TranscribeOutput(text, duration) ==
    [text |-> text, duration |-> duration, cost |-> NoCost]

MediaOutput(mime, data) == [mime |-> mime, data |-> data]

\* Python's (x or 0) on an Optional number
OrZero(x) == IF x = NoInt THEN 0 ELSE x

estimate_cost_ignoring_zero_rates(provider, model_id, usage) ==
    IF usage = NoUsage THEN NoCost
    ELSE IF usage.inputTokens = NoInt /\ usage.outputTokens = NoInt THEN NoCost
    ELSE LET pricing == lookup_token_prices(provider, model_id) IN
         IF pricing = NoPrices THEN NoCost
         ELSE CostBreakdown(OrZero(usage.inputTokens) * OrZero(pricing.input),
                            OrZero(usage.outputTokens) * OrZero(pricing.output),
                            OrZero(usage.inputTokens) * OrZero(pricing.input)
                              + OrZero(usage.outputTokens) * OrZero(pricing.output),
                            pricing)

\* estimate_cost: NoCost without usage, without any token count, without
\* curated prices, or when both rates are zero.  With whole-USD rates the
\* costs are whole millionths of a USD, which round(x, 6) leaves as they are
estimate_cost(provider, model_id, usage) ==
    IF usage = NoUsage THEN NoCost
    ELSE IF usage.inputTokens = NoInt /\ usage.outputTokens = NoInt THEN NoCost
    ELSE LET pricing == lookup_token_prices(provider, model_id) IN
         IF pricing = NoPrices THEN NoCost
         ELSE LET input_rate == OrZero(pricing.input)
                  output_rate == OrZero(pricing.output)
                  input_cost == OrZero(usage.inputTokens) * input_rate
                  output_cost == OrZero(usage.outputTokens) * output_rate
              IN
              IF input_rate = 0 /\ output_rate = 0 THEN NoCost
              ELSE CostBreakdown(input_cost, output_cost,
                                 input_cost + output_cost, pricing)

\* _audio_price_per_minute
AudioPricePerMinute(curated) == curated.audioPerMinute

\* round(x / 60, 6) in millionths: to the nearest whole, ties to even
RoundDiv60(x) ==
    LET q == x \div 60
        r == x % 60
    IN IF r > 30 \/ (r = 30 /\ q % 2 = 1) THEN q + 1 ELSE q

\* estimate_transcribe_cost
estimate_transcribe_cost(provider, model_id, duration_seconds) ==
    IF duration_seconds = NoInt \/ duration_seconds <= 0 THEN NoCost
    ELSE LET curated == find_curated_model(provider, model_id) IN
         IF curated = NoCurated THEN NoCost
         ELSE LET rate == AudioPricePerMinute(curated) IN
              IF rate = NoInt \/ rate <= 0 THEN NoCost
              ELSE CostBreakdown(RoundDiv60(duration_seconds * rate), 0,
                                 RoundDiv60(duration_seconds * rate), NoPrices)

\* _attach_cost
AttachCost(provider, model_id, output) ==
    LET cost == estimate_cost(provider, model_id, output.usage) IN
    IF cost = NoCost THEN output ELSE [output EXCEPT !.cost = cost]

\* _transcribe_duration_seconds (outputs of the model carry no segments)
TranscribeDurationSeconds(output) ==
    IF output.duration # NoInt /\ output.duration >= 0 THEN output.duration
    ELSE NoInt

\* _attach_transcribe_cost
AttachTranscribeCost(provider, model_id, output) ==
    IF output.cost # NoCost THEN output
    ELSE LET cost == estimate_transcribe_cost(provider, model_id,
                                              TranscribeDurationSeconds(output))
         IN IF cost = NoCost THEN output ELSE [output EXCEPT !.cost = cost]

(***************************************************************************)
(* hub.py: the Kit's capability calls                                      *)
(***************************************************************************)
CapabilityOps ==
    {"generate", "generate_image", "generate_mesh", "generate_speech", "transcribe"}

CheckedOpsWithoutTranscribe == {"generate_image", "generate_mesh", "generate_speech"}

\* the calls that test hasattr(adapter, <method>) before the try block
CheckedOps == {"generate_image", "generate_mesh", "generate_speech", "transcribe"}

UnsupportedWhat(op) ==
    CASE op = "generate_image" -> "image generation"
      [] op = "generate_mesh" -> "mesh generation"
      [] op = "generate_speech" -> "speech generation"
      [] op = "transcribe" -> "transcription"
      [] OTHER -> ""

\* the error raised when hasattr fails
UnsupportedError(provider, op) ==
    KitError(UNSUPPORTED,
             "Provider " \o provider \o " does not support " \o UnsupportedWhat(op),
             NoInt)

\* _require_adapter's error
NotConfiguredError(provider) ==
    KitError(VALIDATION, "Provider " \o provider \o " is not configured", NoInt)

\* what the adapter's capability method does in one call: return or raise
CallReturned(output) == [raised |-> FALSE, output |-> output, err |-> NoError]
CallRaised(err) == [raised |-> TRUE, output |-> NoOutput, err |-> err]

\* what a call leaves behind when the Kit raises before the try block
RaisedBeforeCall(l, adapter, err) ==
    [learned |-> l, adapter |-> adapter, calls |-> <<>>, learns |-> <<>>,
     adapterErr |-> NoError, raised |-> TRUE, err |-> err,
     raw |-> NoOutput, value |-> NoOutput]

CaughtWithoutLearning(l, ent, provider, model, err, t) ==
    [learned |-> l, learns |-> <<>>, err |-> to_kit_error(err)]

\* the except branch: classify, learn, raise the classified error
Caught(l, ent, provider, model, err, t) ==
    LET kit_err == to_kit_error(err) IN
    [learned |-> LearnModelUnavailable(l, ent, provider, ModelText(model), kit_err, t),
     learns |-> <<[ent |-> ent, provider |-> provider, model |-> ModelText(model),
                   err |-> kit_err]>>,
     err |-> kit_err]

\* the success path of the try block: only generate and transcribe attach a
\* cost
Annotated(op, provider, model, output) ==
    CASE op = "generate" -> AttachCost(provider, model, output)
      [] op = "transcribe" -> AttachTranscribeCost(provider, model, output)
      [] OTHER -> output

\* Kit.<op> / Kit.<op>_with_context once the entitlement is resolved;
\* outcome is what the adapter's method does if it is called
Dispatch(l, op, provider, model, ent, outcome, t) ==
    LET adapter == AdapterFactory(provider, ent) IN
    IF adapter = NoAdapter
    THEN RaisedBeforeCall(l, adapter, NotConfiguredError(provider))
    ELSE IF op \in CheckedOps /\ op \notin Methods(adapter)
    THEN RaisedBeforeCall(l, adapter, UnsupportedError(provider, op))
    ELSE IF op \notin Methods(adapter)
    THEN \* the attribute lookup inside the try block raises AttributeError
         LET c == Caught(l, ent, provider, model,
                         OtherException("object has no attribute " \o op), t) IN
         [learned |-> c.learned, adapter |-> adapter, calls |-> <<>>,
          learns |-> c.learns, adapterErr |-> NoError, raised |-> TRUE,
          err |-> c.err, raw |-> NoOutput, value |-> NoOutput]
    ELSE IF outcome.raised
    THEN LET c == Caught(l, ent, provider, model, outcome.err, t) IN
         [learned |-> c.learned, adapter |-> adapter,
          calls |-> <<[method |-> op, adapter |-> adapter]>>,
          learns |-> c.learns, adapterErr |-> outcome.err, raised |-> TRUE,
          err |-> c.err, raw |-> NoOutput, value |-> NoOutput]
    ELSE [learned |-> l, adapter |-> adapter,
          calls |-> <<[method |-> op, adapter |-> adapter]>>,
          learns |-> <<>>, adapterErr |-> NoError, raised |-> FALSE,
          err |-> NoError, raw |-> outcome.output,
          value |-> Annotated(op, provider, model, outcome.output)]

(***************************************************************************)
(* hub.py: stream_generate.  An adapter's stream is the chunks it yields   *)
(* and, if it fails, the error it raises after them (before any chunk when *)
(* the stream fails as it is started).  No adapter sets a chunk's cost.    *)
(***************************************************************************)
StreamChunk(type, textDelta, usage) ==
    [type |-> type, textDelta |-> textDelta, usage |-> usage, cost |-> NoCost]

StreamEnded(chunks) == [chunks |-> chunks, raised |-> FALSE, err |-> NoError]
StreamRaised(chunks, err) == [chunks |-> chunks, raised |-> TRUE, err |-> err]

AttachCostChunkAnyType(chunk, provider, model) ==
    LET cost == estimate_cost(provider, model, chunk.usage) IN
    IF cost # NoCost THEN [chunk EXCEPT !.cost = cost] ELSE chunk

\* the body of the loop of _attach_cost_stream: what is yielded for a chunk
AttachCostChunk(chunk, provider, model) ==
    IF chunk.type = "message_end"
    THEN LET cost == estimate_cost(provider, model, chunk.usage) IN
         IF cost # NoCost THEN [chunk EXCEPT !.cost = cost] ELSE chunk
    ELSE chunk

\* _attach_cost_stream over the chunks the adapter's stream yields
AttachCostStream(chunks, provider, model) ==
    [i \in 1..Len(chunks) |-> AttachCostChunk(chunks[i], provider, model)]

\* Kit.stream_generate / Kit.stream_generate_with_context once the
\* entitlement is resolved, with the returned stream consumed to its end:
\* there is no hasattr test and no try block, so whatever the attribute
\* lookup or the adapter's stream raises reaches the caller as it is
DispatchStream(l, provider, model, ent, stream) ==
    LET adapter == AdapterFactory(provider, ent) IN
    IF adapter = NoAdapter
    THEN [RaisedBeforeCall(l, adapter, NotConfiguredError(provider))
            EXCEPT !.raw = <<>>, !.value = <<>>]
    ELSE IF "stream_generate" \notin Methods(adapter)
    THEN [RaisedBeforeCall(l, adapter,
                           OtherException("object has no attribute stream_generate"))
            EXCEPT !.raw = <<>>, !.value = <<>>]
    ELSE [learned |-> l, adapter |-> adapter,
          calls |-> <<[method |-> "stream_generate", adapter |-> adapter]>>,
          learns |-> <<>>,
          adapterErr |-> IF stream.raised THEN stream.err ELSE NoError,
          raised |-> stream.raised,
          err |-> IF stream.raised THEN stream.err ELSE NoError,
          raw |-> stream.chunks,
          value |-> AttachCostStream(stream.chunks, provider, model)]

(***************************************************************************)
(* http_asgi.py: the status of an error response                           *)
(***************************************************************************)
map_status_with_404(err) ==
    IF err.kind \in {VALIDATION, UNSUPPORTED} THEN 400
    ELSE IF err.kind = PROVIDER_AUTH THEN 401
    ELSE IF err.kind = PROVIDER_NOT_FOUND THEN 404
    ELSE IF err.kind = PROVIDER_RATE_LIMIT THEN 429
    ELSE IF err.kind = PROVIDER_UNAVAILABLE THEN 503
    ELSE 500

\* _map_status
map_status(err) ==
    IF err.kind \in {VALIDATION, UNSUPPORTED} THEN 400
    ELSE IF err.kind = PROVIDER_AUTH THEN 401
    ELSE IF err.kind = PROVIDER_RATE_LIMIT THEN 429
    ELSE IF err.kind = PROVIDER_UNAVAILABLE THEN 503
    ELSE 500

(***************************************************************************)
(* router.py: ModelRouter.  A ModelRecord is the record list_model_records *)
(* builds, with the features, modalities and tags of the model beside it.  *)
(***************************************************************************)
NoConstraints == [none |-> TRUE]
ModelConstraints(requireTools, requireJson, requireVision, maxCostUsd, allowPreview) ==
    [requireTools |-> requireTools, requireJson |-> requireJson,
     requireVision |-> requireVision, maxCostUsd |-> maxCostUsd,
     allowPreview |-> allowPreview]

ModelResolutionRequest(constraints, preferredModels) ==
    [constraints |-> constraints, preferredModels |-> preferredModels]

\* what _to_record copies from model.capabilities and the preview flag
ModelCapabilities(tools, json, vision, tags) ==
    [features |-> [tools |-> tools, jsonMode |-> json, jsonSchema |-> json],
     modalities |-> [vision |-> vision], tags |-> tags]

RECURSIVE StripNonEmpty(_)
\* [entry.strip() for entry in preferredModels if entry.strip()]
StripNonEmpty(entries) ==
    IF Len(entries) = 0 THEN <<>>
    ELSE IF Strip(Head(entries)) = "" THEN StripNonEmpty(Tail(entries))
    ELSE <<Strip(Head(entries))>> \o StripNonEmpty(Tail(entries))

\* entry in (model.id, model.providerModelId)
NamedBy(model, entry) == entry \in {model.id, ModelText(model.providerModelId)}

\* _matches_preferred
matches_preferred(model, preferred) ==
    \E i \in 1..Len(preferred) : NamedBy(model, preferred[i])

\* _preferred_rank: the index of the first preferred entry naming the model
preferred_rank(model, preferred) ==
    IF Len(preferred) = 0 THEN Len(preferred) + 1
    ELSE IF matches_preferred(model, preferred)
    THEN (CHOOSE i \in 1..Len(preferred) :
             /\ NamedBy(model, preferred[i])
             /\ \A j \in 1..(i - 1) : ~NamedBy(model, preferred[j])) - 1
    ELSE Len(preferred) + 1

\* Python's (x or 0.0) on an optional price
PriceOrZero(x) == IF x = NoInt THEN 0 ELSE x

\* _within_cost
within_cost(model, max_cost) ==
    IF model.pricing = NoPrices THEN TRUE
    ELSE IF PriceOrZero(model.pricing.input) # 0 /\ model.pricing.input > max_cost
    THEN FALSE
    ELSE IF PriceOrZero(model.pricing.output) # 0 /\ model.pricing.output > max_cost
    THEN FALSE
    ELSE TRUE

\* _price_score
price_score(model) ==
    IF model.pricing = NoPrices THEN 0
    ELSE LET inputs == PriceOrZero(model.pricing.input)
             outputs == PriceOrZero(model.pricing.output)
         IN IF inputs # 0 /\ outputs # 0
            THEN IF inputs <= outputs THEN inputs ELSE outputs
            ELSE IF inputs # 0 THEN inputs ELSE outputs

matches_any_entitlement(model, request, preferred) ==
    LET constraints == request.constraints
        allow_preview == IF constraints # NoConstraints THEN constraints.allowPreview
                         ELSE TRUE
    IN /\ constraints # NoConstraints =>
            /\ ~(constraints.requireTools /\ ~model.features.tools)
            /\ ~(constraints.requireJson
                 /\ ~(model.features.jsonMode \/ model.features.jsonSchema))
            /\ ~(constraints.requireVision /\ ~model.modalities.vision)
            /\ ~(PriceOrZero(constraints.maxCostUsd) # 0
                 /\ ~within_cost(model, constraints.maxCostUsd))
       /\ ~(allow_preview = FALSE /\ (\E i \in 1..Len(model.tags) : model.tags[i] = "preview"))
       /\ ~(Len(preferred) > 0 /\ ~matches_preferred(model, preferred))

\* _filter_models.matches
matches(model, request, preferred) ==
    /\ model.availability.entitled
    /\ LET constraints == request.constraints
           allow_preview == IF constraints # NoConstraints THEN constraints.allowPreview
                            ELSE TRUE
       IN /\ constraints # NoConstraints =>
               /\ ~(constraints.requireTools /\ ~model.features.tools)
               /\ ~(constraints.requireJson
                    /\ ~(model.features.jsonMode \/ model.features.jsonSchema))
               /\ ~(constraints.requireVision /\ ~model.modalities.vision)
               /\ ~(PriceOrZero(constraints.maxCostUsd) # 0
                    /\ ~within_cost(model, constraints.maxCostUsd))
          /\ ~(allow_preview = FALSE /\ (\E i \in 1..Len(model.tags) : model.tags[i] = "preview"))
          /\ ~(Len(preferred) > 0 /\ ~matches_preferred(model, preferred))

\* the sort key (_preferred_rank, _price_score, displayName or "") compared
\* as Python compares tuples
CandidateLess(a, b, preferred) ==
    LET ra == preferred_rank(a, preferred)
        rb == preferred_rank(b, preferred)
        pa == price_score(a)
        pb == price_score(b)
    IN \/ ra < rb
       \/ ra = rb /\ pa < pb
       \/ ra = rb /\ pa = pb
          /\ StrRank(OrEmpty(a.displayName)) < StrRank(OrEmpty(b.displayName))

RECURSIVE InsertCandidate(_, _, _)
InsertCandidate(sorted, x, preferred) ==
    IF Len(sorted) = 0 THEN <<x>>
    ELSE IF CandidateLess(x, Head(sorted), preferred) THEN <<x>> \o sorted
    ELSE <<Head(sorted)>> \o InsertCandidate(Tail(sorted), x, preferred)

RECURSIVE SortCandidates(_, _)
\* candidates.sort(key=...): stable
SortCandidates(seq, preferred) ==
    IF Len(seq) = 0 THEN <<>>
    ELSE InsertCandidate(SortCandidates(SubSeq(seq, 1, Len(seq) - 1), preferred),
                         seq[Len(seq)], preferred)

\* _filter_models
filter_models(models, request) ==
    LET preferred == StripNonEmpty(request.preferredModels) IN
    SortCandidates(SelectSeq(models, LAMBDA m : matches(m, request, preferred)),
                   preferred)

\* ModelRouter.resolve: ResolvedModel(primary, fallback) or ValueError
resolve(models, request) ==
    LET candidates == filter_models(models, request) IN
    IF Len(candidates) = 0
    THEN [raised |-> TRUE, err |-> "router: no models match constraints",
          primary |-> None, fallback |-> None]
    ELSE [raised |-> FALSE, err |-> None, primary |-> candidates[1],
          fallback |-> IF Len(candidates) > 1 THEN Tail(candidates) ELSE None]

(***************************************************************************)
(* clients/replicate_client.py: ReplicateClient(max_retries=MaxRetries).   *)
(* An exception of replicate.run is a record of its status, status_code    *)
(* and message attributes.                                                 *)
(***************************************************************************)
UpstreamError(status, status_code, message) ==
    [status |-> status, status_code |-> status_code, message |-> message]

\* needle in message.lower(), for the messages of the model
LowerContains(message, needle) ==
    CASE needle = "429" -> message \in {"upstream returned 429"}
      [] needle = "throttl" -> message \in {"Request was throttled"}
      [] needle = "rate limit" -> message \in {"Rate limit exceeded"}
      [] OTHER -> FALSE

\* getattr(exc, "status", None) or getattr(exc, "status_code", None)
StatusOf(exc) ==
    IF exc.status \notin {NoInt, 0} THEN exc.status ELSE exc.status_code

\* ReplicateClient._is_throttle
is_throttle(exc) ==
    IF StatusOf(exc) = 429 THEN TRUE
    ELSE LowerContains(exc.message, "throttl") \/ LowerContains(exc.message, "rate limit")

should_retry_without_limit(exc, attempt, saw_throttle) ==
    IF StatusOf(exc) = 429 THEN TRUE
    ELSE IF StatusOf(exc) = 404 /\ saw_throttle THEN TRUE
    ELSE \/ LowerContains(exc.message, "429")
         \/ LowerContains(exc.message, "throttl")
         \/ LowerContains(exc.message, "rate limit")

\* ReplicateClient._should_retry
should_retry(exc, attempt, saw_throttle) ==
    IF attempt >= MaxRetries THEN FALSE
    ELSE IF StatusOf(exc) = 429 THEN TRUE
    ELSE IF StatusOf(exc) = 404 /\ saw_throttle THEN TRUE
    ELSE \/ LowerContains(exc.message, "429")
         \/ LowerContains(exc.message, "throttl")
         \/ LowerContains(exc.message, "rate limit")

\* last before any call; n flips with every call, so that a call is a step
\* even when it repeats the previous one
NoCall == [op |-> "none", n |-> 0]

RECURSIVE SumDraws(_, _)
SumDraws(d, ps) ==
    IF ps = {} THEN 0
    ELSE LET p == CHOOSE q \in ps : TRUE IN Len(d[p]) + SumDraws(d, ps \ {p})

\* the number of next() calls made so far
TotalDraws == SumDraws(drawn, DOMAIN drawn)

\* _KeyPool.next() on the pool of provider p
PoolNext(p) ==
    /\ p \in DOMAIN pools
    /\ TotalDraws < MaxDraws
    /\ LET key == KeyPoolNextKey(pools[p], index[p]) IN
        /\ index' = [index EXCEPT ![p] = KeyPoolNextIndex(pools[p], index[p])]
        /\ drawn' = [drawn EXCEPT ![p] = Append(drawn[p], key)]
        /\ last' = [op |-> "next", n |-> 1 - last.n, provider |-> p, key |-> key]
    /\ UNCHANGED <<pools, cache, learned, now, env, inflight>>

\* ModelRegistry.list_models(providers, refresh, entitlement) of a registry
\* whose adapter dict has the keys order; outcomes[i] is what
\* adapter.list_models does if it is called for the i-th provider
ListModelsOf(order, providers, refresh, ent, outcomes) ==
    \E r \in {EntriesForProvidersOf(order, cache, providers, refresh, ent, now,
                                     outcomes)} :
    /\ cache' = r.cache
    /\ last' = [op |-> "list_models", n |-> 1 - last.n, providers |-> providers,
                refresh |-> refresh, ent |-> ent, adapters |-> order,
                called |-> r.called, failed |-> r.failed, raised |-> r.raised,
                err |-> r.err, served |-> r.results,
                result |-> IF r.raised THEN <<>>
                           ELSE Sorted(ExtendAll(r.results, r.order))]
    /\ UNCHANGED <<pools, index, drawn, learned, now, env, inflight>>

\* Kit.list_models(providers, refresh, entitlement)
ListModels(providers, refresh, ent, outcomes) ==
    ListModelsOf(AdapterOrder, providers, refresh, ent, outcomes)

\* ModelRegistry.list_model_records(providers, refresh, entitlement) of a
\* registry whose adapter dict has the keys order
ListModelRecordsOf(order, providers, refresh, ent, outcomes) ==
    \E r \in {EntriesForProvidersOf(order, cache, providers, refresh, ent, now,
                                     outcomes)} :
    \E rec \in {IF r.raised THEN [learned |-> learned, records |-> <<>>]
                ELSE RecordsOfEntries([learned |-> learned, records |-> <<>>],
                                      r.results, r.order, ent, now)} :
    /\ cache' = r.cache
    /\ learned' = rec.learned
    /\ last' = [op |-> "list_model_records", n |-> 1 - last.n,
                providers |-> providers, refresh |-> refresh, ent |-> ent,
                adapters |-> order,
                called |-> r.called, failed |-> r.failed, raised |-> r.raised,
                err |-> r.err, served |-> r.results,
                popped |-> DOMAIN learned \ DOMAIN rec.learned,
                result |-> Sorted(rec.records)]
    /\ UNCHANGED <<pools, index, drawn, now, env, inflight>>

\* Kit.list_model_records(providers, refresh, entitlement)
ListModelRecords(providers, refresh, ent, outcomes) ==
    ListModelRecordsOf(AdapterOrder, providers, refresh, ent, outcomes)

\* ModelRegistry.learn_model_unavailable(entitlement, provider, model_id, err)
Learn(ent, provider, model_id, err) ==
    /\ learned' = LearnModelUnavailable(learned, ent, provider, model_id, err, now)
    /\ last' = [op |-> "learn_model_unavailable", n |-> 1 - last.n, ent |-> ent,
                provider |-> provider, model |-> model_id, err |-> err]
    /\ UNCHANGED <<pools, index, drawn, cache, now, env, inflight>>

\* Kit._entitlement_for_provider followed by the capability call op: one
\* next() on the provider's pool, if it has one, then the dispatch
KitCall(op, provider, model, outcome) ==
    /\ provider \in DOMAIN pools => TotalDraws < MaxDraws
    /\ LET pooled == provider \in DOMAIN pools
           key == IF pooled THEN KeyPoolNextKey(pools[provider], index[provider])
                  ELSE ""
           ent == IF pooled THEN EntitlementFor(provider, key) ELSE NoEnt
       IN
       \E r \in {Dispatch(learned, op, provider, model, ent, outcome, now)} :
        /\ index' = IF pooled
                    THEN [index EXCEPT ![provider] =
                            KeyPoolNextIndex(pools[provider], index[provider])]
                    ELSE index
        /\ drawn' = IF pooled
                    THEN [drawn EXCEPT ![provider] = Append(drawn[provider], key)]
                    ELSE drawn
        /\ learned' = r.learned
        /\ env' = EnvAfterConstruct(env, r.adapter)
        /\ last' = [op |-> op, n |-> 1 - last.n, provider |-> provider,
                    model |-> model, ent |-> ent, adapter |-> r.adapter,
                    calls |-> r.calls, learns |-> r.learns,
                    adapterErr |-> r.adapterErr, raised |-> r.raised,
                    err |-> r.err, raw |-> r.raw, value |-> r.value,
                    credential |-> Credential(EnvAfterConstruct(env, r.adapter),
                                              r.adapter)]
    /\ UNCHANGED <<pools, cache, now, inflight>>

\* Kit.generate(input)
Generate(provider, model, outcome) == KitCall("generate", provider, model, outcome)

\* Kit.generate_image(input)
GenerateImage(provider, model, outcome) ==
    KitCall("generate_image", provider, model, outcome)

\* Kit.generate_mesh(input)
GenerateMesh(provider, model, outcome) ==
    KitCall("generate_mesh", provider, model, outcome)

\* Kit.generate_speech(input)
GenerateSpeech(provider, model, outcome) ==
    KitCall("generate_speech", provider, model, outcome)

\* Kit.transcribe(input)
Transcribe(provider, model, outcome) == KitCall("transcribe", provider, model, outcome)

\* Kit.stream_generate(input) and the consumption of the stream it returns
StreamGenerate(provider, model, stream) ==
    /\ provider \in DOMAIN pools => TotalDraws < MaxDraws
    /\ LET pooled == provider \in DOMAIN pools
           key == IF pooled THEN KeyPoolNextKey(pools[provider], index[provider])
                  ELSE ""
           ent == IF pooled THEN EntitlementFor(provider, key) ELSE NoEnt
       IN
       \E r \in {DispatchStream(learned, provider, model, ent, stream)} :
        /\ index' = IF pooled
                    THEN [index EXCEPT ![provider] =
                            KeyPoolNextIndex(pools[provider], index[provider])]
                    ELSE index
        /\ drawn' = IF pooled
                    THEN [drawn EXCEPT ![provider] = Append(drawn[provider], key)]
                    ELSE drawn
        /\ learned' = r.learned
        /\ env' = EnvAfterConstruct(env, r.adapter)
        /\ last' = [op |-> "stream_generate", n |-> 1 - last.n,
                    provider |-> provider, model |-> model, ent |-> ent,
                    adapter |-> r.adapter, calls |-> r.calls, learns |-> r.learns,
                    adapterErr |-> r.adapterErr, raised |-> r.raised,
                    err |-> r.err, raw |-> r.raw, value |-> r.value]
    /\ UNCHANGED <<pools, cache, now, inflight>>

\* Kit._adapter_factory(provider, entitlement) of a Kit built with the
\* external factory given
AdapterFactoryCall(external, provider, ent) ==
    /\ last' = [op |-> "_adapter_factory", n |-> 1 - last.n, external |-> external,
                provider |-> provider, ent |-> ent,
                adapter |-> ResolveAdapter(external, provider, ent)]
    /\ UNCHANGED <<pools, index, drawn, cache, learned, now, env, inflight>>

\* the first half of a capability call that reaches the adapter:
\* _entitlement_for_provider draws the key, _require_adapter builds the
\* adapter; the caller can be preempted here, before the adapter's method
BeginCall(t, op, provider, model) ==
    /\ inflight[t] = Idle
    /\ provider \in DOMAIN pools => TotalDraws < MaxDraws
    /\ LET pooled == provider \in DOMAIN pools
           key == IF pooled THEN KeyPoolNextKey(pools[provider], index[provider])
                  ELSE ""
           ent == IF pooled THEN EntitlementFor(provider, key) ELSE NoEnt
       IN
       \E adapter \in {AdapterFactory(provider, ent)} :
        /\ adapter # NoAdapter
        /\ op \in Methods(adapter)
        /\ index' = IF pooled
                    THEN [index EXCEPT ![provider] =
                            KeyPoolNextIndex(pools[provider], index[provider])]
                    ELSE index
        /\ drawn' = IF pooled
                    THEN [drawn EXCEPT ![provider] = Append(drawn[provider], key)]
                    ELSE drawn
        /\ env' = EnvAfterConstruct(env, adapter)
        /\ inflight' = [inflight EXCEPT ![t] =
                          [pc |-> "call", op |-> op, provider |-> provider,
                           model |-> model, ent |-> ent, adapter |-> adapter]]
    /\ UNCHANGED <<pools, cache, learned, now, last>>

\* the second half: the adapter's method sends its request with the
\* credential in force at that moment, then the try block ends
FinishCall(t, outcome) ==
    /\ inflight[t] # Idle
    /\ LET c == inflight[t] IN
       \E r \in {Dispatch(learned, c.op, c.provider, c.model, c.ent, outcome, now)} :
        /\ learned' = r.learned
        /\ last' = [op |-> c.op, n |-> 1 - last.n, provider |-> c.provider,
                    model |-> c.model, ent |-> c.ent, adapter |-> c.adapter,
                    calls |-> r.calls, learns |-> r.learns,
                    adapterErr |-> r.adapterErr, raised |-> r.raised,
                    err |-> r.err, raw |-> r.raw, value |-> r.value,
                    credential |-> Credential(env, c.adapter)]
    /\ inflight' = [inflight EXCEPT ![t] = Idle]
    /\ UNCHANGED <<pools, index, drawn, cache, now, env>>

\* _send_json_error(send, err): the status and the body of the response
SendJsonError(err) ==
    /\ \E kit_err \in {to_kit_error(err)} :
         last' = [op |-> "_send_json_error", n |-> 1 - last.n, err |-> err,
                  kit_err |-> kit_err, status |-> map_status(kit_err),
                  payload |-> [kind |-> kit_err.kind, message |-> kit_err.message]]
    /\ UNCHANGED <<pools, index, drawn, cache, learned, now, env, inflight>>

\* Kit.__init__ on a KitConfig with one provider config: _prepare_providers
\* builds the pool, _build_adapters the static adapter
KitInit ==
    /\ last.op = "KitConfig"
    /\ \E r \in {PrepareProvider(last.provider, last.cfg)} :
        /\ pools' = IF r.pool = <<>> THEN <<>> ELSE (last.provider :> r.pool)
        /\ index' = IF r.pool = <<>> THEN <<>> ELSE (last.provider :> 0)
        /\ drawn' = IF r.pool = <<>> THEN <<>> ELSE (last.provider :> <<>>)
        /\ env' = EnvAfterConstruct(env, r.adapter)
        /\ last' = [op |-> "_prepare_providers", n |-> 1 - last.n,
                    provider |-> last.provider, cfg |-> last.cfg, keys |-> r.keys,
                    raised |-> r.raised, err |-> r.err, pool |-> r.pool,
                    adapter |-> r.adapter]
    /\ UNCHANGED <<cache, learned, now, inflight>>

StoreEntryIfAbsent(c, key, entry) == IF key \in DOMAIN c THEN c ELSE (key :> entry) @@ c

\* _fetch_and_cache: self._cache[key] = entry
StoreEntry(c, key, entry) == (key :> entry) @@ c

\* a caller whose list_models call is not under way
AtRest(t) == inflight[t].pc \in {"idle", "returned"}

\* list_models([provider]) by caller t, up to the call of
\* adapter.list_models: a live entry is returned at once, otherwise the
\* caller enters the fetch
ForProviderBegin(t, provider, refresh, ent) ==
    /\ AtRest(t)
    /\ AdapterFor(provider, ent) # NoAdapter
    /\ LET key == CacheKey(provider, ent) IN
       inflight' = [inflight EXCEPT ![t] =
         IF ~refresh /\ CachedIsLive(CacheGet(cache, key), now)
         THEN [pc |-> "returned", key |-> key, fetched |-> FALSE, raised |-> FALSE,
               entry |-> CacheGet(cache, key)]
         ELSE [pc |-> "fetch", key |-> key, provider |-> provider]]
    /\ UNCHANGED <<pools, index, drawn, cache, learned, now, last, env>>

\* adapter.list_models() of caller t returns or raises; a listing is
\* overlaid and stamped with the time, an error goes to the except branch
\* of _for_provider
FetchModels(t, outcome) ==
    /\ inflight[t].pc = "fetch"
    /\ LET c == inflight[t]
           cached == CacheGet(cache, c.key)
       IN inflight' = [inflight EXCEPT ![t] =
            IF ~outcome.raised
            THEN [pc |-> "store", key |-> c.key,
                  entry |-> CacheEntry(MapCurated(outcome.models), now, now + TtlSeconds)]
            ELSE IF FallbackIsServable(cached, now)
            THEN [pc |-> "returned", key |-> c.key, fetched |-> FALSE, raised |-> FALSE,
                  entry |-> cached]
            ELSE [pc |-> "returned", key |-> c.key, fetched |-> FALSE, raised |-> TRUE,
                  entry |-> NoEntry]]
    /\ UNCHANGED <<pools, index, drawn, cache, learned, now, last, env>>

\* caller t stores the entry it built and returns it; last names the
\* latest write of the cache
StoreAndReturn(t) ==
    /\ inflight[t].pc = "store"
    /\ LET c == inflight[t] IN
       /\ cache' = StoreEntry(cache, c.key, c.entry)
       /\ last' = [op |-> "_fetch_and_cache", n |-> 1 - last.n, thread |-> t,
                   key |-> c.key, entry |-> c.entry]
       /\ inflight' = [inflight EXCEPT ![t] =
                         [pc |-> "returned", key |-> c.key, fetched |-> TRUE,
                          raised |-> FALSE, entry |-> c.entry]]
    /\ UNCHANGED <<pools, index, drawn, learned, now, env>>

\* the callers inside _KeyPool.next
Drawing == {t \in Threads : inflight[t].pc \in {"next_key", "next_index"}}

\* _KeyPool.next by caller t, first statement: the key under the cursor
PoolReadKey(t, p) ==
    /\ inflight[t] = Idle
    /\ TotalDraws + Cardinality(Drawing) < MaxDraws
    /\ inflight' = [inflight EXCEPT ![t] =
                      [pc |-> "next_key", provider |-> p,
                       key |-> KeyPoolNextKey(pools[p], index[p])]]
    /\ UNCHANGED <<pools, index, drawn, cache, learned, now, last, env>>

\* second statement, right-hand side: the cursor is read again
PoolReadIndex(t) ==
    /\ inflight[t].pc = "next_key"
    /\ inflight' = [inflight EXCEPT ![t] =
                      [pc |-> "next_index", provider |-> inflight[t].provider,
                       key |-> inflight[t].key,
                       idx |-> index[inflight[t].provider]]]
    /\ UNCHANGED <<pools, index, drawn, cache, learned, now, last, env>>

\* second statement, assignment: the advanced cursor is written and the
\* key returned
PoolWriteIndex(t) ==
    /\ inflight[t].pc = "next_index"
    /\ LET c == inflight[t] IN
       /\ index' = [index EXCEPT ![c.provider] =
                      KeyPoolNextIndex(pools[c.provider], c.idx)]
       /\ drawn' = [drawn EXCEPT ![c.provider] = Append(drawn[c.provider], c.key)]
       /\ last' = [op |-> "next", n |-> 1 - last.n, thread |-> t,
                   provider |-> c.provider, key |-> c.key]
    /\ inflight' = [inflight EXCEPT ![t] = Idle]
    /\ UNCHANGED <<pools, cache, learned, now, env>>

\* _learned_status by caller t, up to the test of the expiry: no entry or
\* a live one is answered at once, an expired one is about to be popped
LearnedRead(t, provider, ent, model_id) ==
    /\ inflight[t] = Idle
    /\ LET key == LearnedKey(provider, ent, model_id)
           entry == LearnedGet(learned, key)
       IN IF entry # NoLearned /\ entry.expires_at < now
          THEN /\ inflight' = [inflight EXCEPT ![t] = [pc |-> "pop", key |-> key]]
               /\ last' = last
          ELSE /\ inflight' = inflight
               /\ last' = [op |-> "_learned_status", n |-> 1 - last.n, thread |-> t,
                           key |-> key, popped |-> NoLearned,
                           reason |-> IF entry = NoLearned THEN None ELSE entry.reason]
    /\ UNCHANGED <<pools, index, drawn, cache, learned, now, env>>

\* self._learned.pop(key, None); return None
LearnedPop(t) ==
    /\ inflight[t].pc = "pop"
    /\ learned' = Without(learned, {inflight[t].key})
    /\ last' = [op |-> "_learned_status", n |-> 1 - last.n, thread |-> t,
                key |-> inflight[t].key,
                popped |-> LearnedGet(learned, inflight[t].key), reason |-> None]
    /\ inflight' = [inflight EXCEPT ![t] = Idle]
    /\ UNCHANGED <<pools, index, drawn, cache, now, env>>

\* the records of the latest listing with the capabilities caps of their
\* models beside them
WithCapabilities(records, caps) ==
    [i \in 1..Len(records) |->
        records[i] @@ caps[ModelText(records[i].providerModelId)]]

\* ModelRouter().resolve(kit.list_model_records(...), request)
Resolve(caps, request) ==
    /\ last.op = "list_model_records"
    /\ ~last.raised
    /\ \E models \in {WithCapabilities(last.result, caps)} :
       \E r \in {resolve(models, request)} :
         last' = [op |-> "resolve", n |-> 1 - last.n, ent |-> last.ent,
                  models |-> models, request |-> request, raised |-> r.raised,
                  err |-> r.err, primary |-> r.primary, fallback |-> r.fallback]
    /\ UNCHANGED <<pools, index, drawn, cache, learned, now, env, inflight>>

\* ReplicateClient.run is entered: attempt = 0, saw_throttle = False
RunBegin(t) ==
    /\ inflight[t] = Idle
    /\ inflight' = [inflight EXCEPT ![t] =
                      [pc |-> "run", attempt |-> 0, saw_throttle |-> FALSE,
                       seen |-> <<>>]]
    /\ UNCHANGED <<pools, index, drawn, cache, learned, now, last, env>>

\* one pass of the loop of run: replicate.run returns, and run returns its
\* value, or raises exc, and run raises it or sleeps and goes round again;
\* seen holds the errors of the run so far
RunAttempt(t, returned, exc) ==
    /\ inflight[t].pc = "run"
    /\ LET c == inflight[t]
           saw == c.saw_throttle \/ is_throttle(exc)
       IN
       IF returned
       THEN /\ last' = [op |-> "run", n |-> 1 - last.n, raised |-> FALSE,
                        attempts |-> Len(c.seen) + 1, seen |-> c.seen,
                        attempt |-> c.attempt, saw_throttle |-> c.saw_throttle]
            /\ inflight' = [inflight EXCEPT ![t] = Idle]
       ELSE IF ~should_retry(exc, c.attempt, saw)
       THEN /\ last' = [op |-> "run", n |-> 1 - last.n, raised |-> TRUE,
                        attempts |-> Len(c.seen) + 1, seen |-> Append(c.seen, exc),
                        attempt |-> c.attempt, saw_throttle |-> saw]
            /\ inflight' = [inflight EXCEPT ![t] = Idle]
       ELSE /\ last' = last
            /\ inflight' = [inflight EXCEPT ![t] =
                              [pc |-> "run", attempt |-> c.attempt + 1,
                               saw_throttle |-> saw, seen |-> Append(c.seen, exc)]]
    /\ UNCHANGED <<pools, index, drawn, cache, learned, now, env>>

\* time passes between calls
Tick ==
    /\ now < MaxTime
    /\ now' = now + 1
    /\ UNCHANGED <<pools, index, drawn, cache, learned, last, env, inflight>>

PoolProviders == {"openai"}

\* a pool right after _KeyPool(keys): any list of distinct keys, cursor 0
InitPool ==
    /\ pools \in [PoolProviders -> KeyLists]
    /\ index = [p \in PoolProviders |-> 0]
    /\ drawn = [p \in PoolProviders |-> <<>>]
    /\ cache = <<>>
    /\ learned = <<>>
    /\ now = 0
    /\ last = NoCall
    /\ env = EnvAfterInit
    /\ inflight = [t \in Threads |-> Idle]

NextPool == \E p \in PoolProviders : PoolNext(p)

SpecPool == InitPool /\ [][NextPool]_vars

(***************************************************************************)
(* The registry's cache: listings of one provider under three              *)
(* entitlement partitions, an unconfigured provider, and the clock.        *)
(***************************************************************************)
E1 == Entitlement("openai", "k1", fingerprint_api_key("k1"), None)
E2 == Entitlement("openai", "k2", fingerprint_api_key("k2"), None)

\* the (providers, entitlement) arguments of the listing calls
ListCalls ==
    {<<<<"openai">>, NoEnt>>, <<<<"openai">>, E1>>, <<<<>>, E2>>, <<<<"xai">>, NoEnt>>}

\* what the provider's listing endpoint answers at time t: the openai
\* catalog gains a model at time 2, so a fresh fetch can differ from a
\* cached listing
UpstreamCatalog(p, t) ==
    IF p = "openai"
    THEN IF t < 2
         THEN <<ModelMetadata("openai", <<"gpt-4o">>, "gpt-4o")>>
         ELSE <<ModelMetadata("openai", <<"gpt-4o", "-mini">>, "gpt-4o-mini"),
                ModelMetadata("openai", <<"gpt-4o">>, "gpt-4o")>>
    ELSE IF p = "bedrock"
    THEN <<ModelMetadata("bedrock", <<"claude-3">>, "claude-3")>>
    ELSE <<ModelMetadata(p, <<"fal-video">>, "fal-video")>>

FetchErrors == {HttpError(503, "upstream says no")}

\* adapter.list_models() of provider p at time t returns or raises
ListOutcomes(p, t) ==
    {Returned(UpstreamCatalog(p, t))} \cup {Raised(e) : e \in FetchErrors}

OutcomesFor(providers, ent, t) ==
    LET resolved == ResolveProviders(providers, ent) IN
    {o \in [1..Len(resolved) -> UNION {ListOutcomes(q, t) : q \in Providers}] :
        \A i \in 1..Len(resolved) : o[i] \in ListOutcomes(resolved[i], t)}

InitRegistry ==
    /\ pools = PreparedPools
    /\ index = [p \in DOMAIN PreparedPools |-> 0]
    /\ drawn = [p \in DOMAIN PreparedPools |-> <<>>]
    /\ cache = <<>>
    /\ learned = <<>>
    /\ now = 0
    /\ last = NoCall
    /\ env = EnvAfterInit
    /\ inflight = [t \in Threads |-> Idle]

NextCache ==
    \/ \E call \in ListCalls, refresh \in BOOLEAN :
         \E outcomes \in OutcomesFor(call[1], call[2], now) :
            ListModels(call[1], refresh, call[2], outcomes)
    \/ Tick

SpecCache == InitRegistry /\ [][NextCache]_vars

(***************************************************************************)
(* The registry's learned failures: learn_model_unavailable, the record    *)
(* listing that reads them, and the clock.                                 *)
(***************************************************************************)
LearnEntitlements == {NoEnt, E1}
LearnModels == {"gpt-4o"}

LearnErrors ==
    {HttpError(404, b) : b \in HttpBodies}
    \cup {HttpError(429, "upstream says no"), HttpError(503, "upstream says no"),
          to_kit_error(OtherException("connection reset"))}

NextLearned ==
    \/ \E ent \in LearnEntitlements, m \in LearnModels, err \in LearnErrors :
         Learn(ent, "openai", m, err)
    \/ \E ent \in LearnEntitlements, o \in ListOutcomes("openai", now) :
         ListModelRecords(<<"openai">>, FALSE, ent, <<o>>)
    \/ Tick

SpecLearned == InitRegistry /\ [][NextLearned]_vars

(***************************************************************************)
(* The Kit's capability calls against every provider, with adapters that   *)
(* return or raise.                                                        *)
(***************************************************************************)
KitModels == {<<"gpt-4o">>}

\* the usage blocks adapters report
Usages == {NoUsage, Usage(NoInt, NoInt), Usage(1000, NoInt), Usage(1000, 2000),
           Usage(0, 0)}

\* what a capability method returns when it succeeds
OutputsOf(op, usages) ==
    CASE op = "generate" -> {GenerateOutput("hello", u) : u \in usages}
      [] op = "transcribe" -> {TranscribeOutput("hello", d) : d \in {NoInt, 0, 90}}
      [] op = "generate_image" -> {MediaOutput("image/png", "aaaa")}
      [] op = "generate_mesh" -> {MediaOutput("model/gltf-binary", "bbbb")}
      [] OTHER -> {MediaOutput("audio/mpeg", "cccc")}

\* the failures of each provider's endpoints in this scenario
CallErrors(provider) ==
    IF provider = "openai"
    THEN {HttpError(404, "upstream says no"), HttpError(429, "upstream says no"),
          OtherException("connection reset")}
    ELSE IF provider = "bedrock" THEN {HttpError(404, "upstream says no")}
    ELSE {OtherException("connection reset")}

\* the error a stub method raises
StubError(provider, op) ==
    KitError(UNSUPPORTED, provider \o " " \o op \o " is not supported", NoInt)

\* what the adapter of the provider can do when its method op is called
CallOutcomes(op, provider, usages, errors) ==
    IF provider \in DOMAIN StaticAdapters
       /\ op \in StubMethods(StaticAdapters[provider])
    THEN {CallRaised(StubError(provider, op))}
    ELSE {CallReturned(o) : o \in OutputsOf(op, usages)}
         \cup {CallRaised(e) : e \in errors}

KitUsages == {Usage(1000, 2000)}

NextKit ==
    \/ \E p \in Providers, m \in KitModels :
         \E o \in CallOutcomes("generate", p, KitUsages, CallErrors(p)) :
            Generate(p, m, o)
    \/ \E p \in Providers, m \in KitModels :
         \E o \in CallOutcomes("generate_image", p, KitUsages, CallErrors(p)) :
            GenerateImage(p, m, o)
    \/ \E p \in Providers, m \in KitModels :
         \E o \in CallOutcomes("generate_mesh", p, KitUsages, CallErrors(p)) :
            GenerateMesh(p, m, o)
    \/ \E p \in Providers, m \in KitModels :
         \E o \in CallOutcomes("generate_speech", p, KitUsages, CallErrors(p)) :
            GenerateSpeech(p, m, o)
    \/ \E p \in Providers, m \in KitModels :
         \E o \in CallOutcomes("transcribe", p, KitUsages, CallErrors(p)) :
            Transcribe(p, m, o)

SpecKit == InitRegistry /\ [][NextKit]_vars

(***************************************************************************)
(* Successful and rate-limited generate / transcribe calls over the models *)
(* of the curated table, for the cost that is attached.                    *)
(***************************************************************************)
CostModels ==
    {<<"gpt-4o">>, <<"gpt-4o", "-mini">>, <<"gpt-4o", "-2024">>, <<"openai/", "gpt-4o">>,
     <<"o1">>, <<"whisper-1">>, <<"claude-3">>, <<"unlisted">>}

CostProviders == {"openai", "bedrock"}

CostErrors == {HttpError(429, "upstream says no")}

NextCost ==
    \/ \E p \in CostProviders, m \in CostModels :
         \E o \in CallOutcomes("generate", p, Usages, CostErrors) :
            Generate(p, m, o)
    \/ \E p \in CostProviders, m \in CostModels :
         \E o \in CallOutcomes("transcribe", p, Usages, CostErrors) :
            Transcribe(p, m, o)

SpecCost == InitRegistry /\ [][NextCost]_vars

(***************************************************************************)
(* Streams: text deltas closed by a message_end chunk, streams without     *)
(* one, and streams that fail when started or after some chunks.           *)
(***************************************************************************)
StreamModels == {<<"gpt-4o">>, <<"gpt-4o", "-mini">>, <<"unlisted">>}

StreamUsages == {NoUsage, Usage(1000, 2000)}

\* the chunk sequences of the adapters' streams
ChunkSequences ==
    {<<>>, <<StreamChunk("delta", "he", NoUsage)>>}
    \cup {<<StreamChunk("delta", "he", NoUsage), StreamChunk("message_end", None, u)>> :
            u \in StreamUsages}
    \cup {<<StreamChunk("message_end", None, u), StreamChunk("delta", "llo", u)>> :
            u \in StreamUsages}

StreamErrors == {HttpError(404, "upstream says no"), OtherException("connection reset")}

StreamOutcomes ==
    {StreamEnded(c) : c \in ChunkSequences}
    \cup {StreamRaised(c, e) :
            c \in {<<>>, <<StreamChunk("delta", "he", NoUsage)>>}, e \in StreamErrors}

NextStream ==
    \E p \in Providers, m \in StreamModels, s \in StreamOutcomes :
        StreamGenerate(p, m, s)

SpecStream == InitRegistry /\ [][NextStream]_vars

(***************************************************************************)
(* Adapter resolution for every provider, with and without an external     *)
(* factory, with and without an entitlement key.                           *)
(***************************************************************************)
\* every provider, three Kits (no factory, a factory that serves nothing, a
\* factory that serves openai and xai), entitlements without and with a key
NextFactory ==
    \E f \in {NoFactory, [configured |-> TRUE, serves |-> {}],
              [configured |-> TRUE, serves |-> {"openai", "xai"}]},
       p \in Providers,
       e \in {NoEnt} \cup {Entitlement("openai", k, fingerprint_api_key(k), None) :
                             k \in {None, "", "k9"}} :
        AdapterFactoryCall(f, p, e)

SpecFactory == InitRegistry /\ [][NextFactory]_vars

(***************************************************************************)
(* Two callers inside generate / generate_image at the same time.          *)
(***************************************************************************)
NextOverlap ==
    \/ \E t \in Threads, op \in {"generate", "generate_image"}, p \in Providers,
          m \in KitModels :
         BeginCall(t, op, p, m)
    \/ \E t \in Threads :
         /\ inflight[t] # Idle
         /\ \E o \in CallOutcomes(inflight[t].op, inflight[t].provider, KitUsages,
                                  CallErrors(inflight[t].provider)) :
              FinishCall(t, o)

SpecOverlap == InitRegistry /\ [][NextOverlap]_vars

(***************************************************************************)
(* Listings over several providers: explicit lists, one of which names a   *)
(* provider twice.                                                         *)
(***************************************************************************)
NextListing ==
    \/ \E ps \in {<<"bedrock", "bedrock">>, <<"fal", "openai">>},
          refresh \in BOOLEAN :
         \E outcomes \in OutcomesFor(ps, NoEnt, now) :
            ListModels(ps, refresh, NoEnt, outcomes)
    \/ \E ps \in {<<"openai", "bedrock">>}, refresh \in BOOLEAN :
         \E outcomes \in OutcomesFor(ps, NoEnt, now) :
            ListModelRecords(ps, refresh, NoEnt, outcomes)
    \/ Tick

SpecListing == InitRegistry /\ [][NextListing]_vars

(***************************************************************************)
(* A Kit built with an adapter factory only: no provider config, no        *)
(* adapter, so the adapter dict of its registry is empty.  The cache is    *)
(* empty or holds what an earlier listing with an explicit provider left.  *)
(***************************************************************************)
InitUnconfigured ==
    /\ pools = <<>>
    /\ index = <<>>
    /\ drawn = <<>>
    /\ cache \in {<<>>,
                  CacheKey("openai", NoEnt) :>
                    CacheEntry(MapCurated(UpstreamCatalog("openai", 0)), 0, TtlSeconds),
                  CacheKey("openai", E1) :>
                    CacheEntry(MapCurated(UpstreamCatalog("openai", 0)), 0, TtlSeconds)}
    /\ learned = <<>>
    /\ now = 0
    /\ last = NoCall
    /\ env = ""
    /\ inflight = [t \in Threads |-> Idle]

NextUnconfigured ==
    \/ \E refresh \in BOOLEAN,
          ent \in {NoEnt, Entitlement(None, "k1", fingerprint_api_key("k1"), None),
                   Entitlement("", "k2", None, None)} :
         ListModelsOf(<<>>, <<>>, refresh, ent, <<>>)
    \/ \E refresh \in BOOLEAN,
          ent \in {NoEnt, Entitlement(None, "k1", fingerprint_api_key("k1"), None),
                   Entitlement("", "k2", None, None)} :
         ListModelRecordsOf(<<>>, <<>>, refresh, ent, <<>>)
    \/ Tick

SpecUnconfigured == InitUnconfigured /\ [][NextUnconfigured]_vars

(***************************************************************************)
(* Error responses of the transport: every kind, with and without an       *)
(* upstream status, and exceptions that are not unified errors.            *)
(***************************************************************************)
ErrorKinds ==
    {UNKNOWN, PROVIDER_AUTH, PROVIDER_RATE_LIMIT, PROVIDER_NOT_FOUND,
     PROVIDER_UNAVAILABLE, VALIDATION, UNSUPPORTED, TIMEOUT}

NextTransport ==
    \E err \in {KitError(k, m, s) : k \in ErrorKinds, m \in {"", "upstream says no"},
                                   s \in {NoInt, 404, 429, 503}}
               \cup {OtherException("connection reset"), OtherException("")} :
        SendJsonError(err)

SpecTransport == InitRegistry /\ [][NextTransport]_vars

(***************************************************************************)
(* Key collection over provider configs: api_key absent, blank, padded or  *)
(* set, api_keys of up to MaxKeys entries with blanks, duplicates, padded  *)
(* duplicates and entries that are not strings.                            *)
(***************************************************************************)
KeyConfigs ==
    {[api_key |-> api_key, api_keys |-> api_keys] :
        api_key \in {None, "", "  ", " k1 ", "k2"},
        api_keys \in UNION {[1..n -> {"k1", " k1 ", "k2", "  ", NonString}] :
                              n \in 0..MaxKeys}}

\* before Kit.__init__: the KitConfig it is about to be given
InitKeys ==
    /\ pools = <<>>
    /\ index = <<>>
    /\ drawn = <<>>
    /\ cache = <<>>
    /\ learned = <<>>
    /\ now = 0
    /\ last \in {[op |-> "KitConfig", n |-> 0, provider |-> p, cfg |-> cfg] :
                   p \in {"openai", "replicate"}, cfg \in KeyConfigs}
                 \cup {[op |-> "KitConfig", n |-> 0, provider |-> "bedrock",
                        cfg |-> [api_key |-> None, api_keys |-> <<>>]]}
    /\ env = ""
    /\ inflight = [t \in Threads |-> Idle]

NextKeys == KitInit

SpecKeys == InitKeys /\ [][NextKeys]_vars

(***************************************************************************)
(* The registry under all three of its calls and the clock.                *)
(***************************************************************************)
NextRegistry ==
    \/ \E ent \in {NoEnt, E1}, refresh \in BOOLEAN, o \in ListOutcomes("openai", now) :
         ListModels(<<"openai">>, refresh, ent, <<o>>)
    \/ \E refresh \in BOOLEAN, o \in ListOutcomes("openai", now) :
         ListModelRecords(<<"openai">>, refresh, NoEnt, <<o>>)
    \/ \E err \in {HttpError(404, "upstream says no"), HttpError(503, "upstream says no")} :
         Learn(NoEnt, "openai", "gpt-4o", err)
    \/ Tick

SpecRegistry == InitRegistry /\ [][NextRegistry]_vars

(***************************************************************************)
(* Failures of Kit.generate and the record listing that follows them, for  *)
(* a provider with a key pool (openai) and one without (bedrock).          *)
(***************************************************************************)
NextFeedback ==
    \/ \E p \in {"openai", "bedrock"} :
         \E m \in {UpstreamCatalog(p, 0)[1].id},
            o \in {c \in CallOutcomes("generate", p, KitUsages, CallErrors(p)) :
                      c.raised => c.err.kind = PROVIDER_NOT_FOUND} :
            Generate(p, m, o)
    \/ \E p \in {"openai", "bedrock"} :
         ListModelRecords(<<p>>, FALSE, NoEnt, <<Returned(UpstreamCatalog(p, now))>>)
    \/ Tick

SpecFeedback == InitRegistry /\ [][NextFeedback]_vars

(***************************************************************************)
(* The six capability calls and the two listings on one Kit.               *)
(***************************************************************************)
NextDraws ==
    \/ \E p \in {"openai", "bedrock", "replicate"}, m \in KitModels :
         \E o \in CallOutcomes("generate", p, KitUsages, {HttpError(429, "upstream says no")}) :
            Generate(p, m, o)
    \/ \E p \in {"openai", "bedrock", "replicate"}, m \in KitModels :
         \E o \in CallOutcomes("generate_image", p, KitUsages, {HttpError(429, "upstream says no")}) :
            GenerateImage(p, m, o)
    \/ \E p \in {"openai", "bedrock", "replicate"}, m \in KitModels :
         \E o \in CallOutcomes("generate_mesh", p, KitUsages, {HttpError(429, "upstream says no")}) :
            GenerateMesh(p, m, o)
    \/ \E p \in {"openai", "bedrock", "replicate"}, m \in KitModels :
         \E o \in CallOutcomes("generate_speech", p, KitUsages, {HttpError(429, "upstream says no")}) :
            GenerateSpeech(p, m, o)
    \/ \E p \in {"openai", "bedrock", "replicate"}, m \in KitModels :
         \E o \in CallOutcomes("transcribe", p, KitUsages, {HttpError(429, "upstream says no")}) :
            Transcribe(p, m, o)
    \/ \E p \in {"openai", "bedrock", "replicate"}, m \in KitModels :
         \E s \in {StreamEnded(<<StreamChunk("delta", "he", NoUsage)>>),
                   StreamRaised(<<>>, HttpError(429, "upstream says no"))} :
            StreamGenerate(p, m, s)
    \/ \E p \in {"openai", "replicate"} :
         ListModels(<<p>>, TRUE, NoEnt, <<Returned(UpstreamCatalog(p, 0))>>)
    \/ \E p \in {"openai", "replicate"} :
         ListModelRecords(<<p>>, TRUE, NoEnt, <<Returned(UpstreamCatalog(p, 0))>>)

SpecDraws == InitRegistry /\ [][NextDraws]_vars

(***************************************************************************)
(* Two callers inside list_models at the same time.                        *)
(***************************************************************************)
NextRace ==
    \/ \E t \in Threads, p \in {"openai", "bedrock"}, refresh \in BOOLEAN :
         ForProviderBegin(t, p, refresh, NoEnt)
    \/ \E t \in Threads :
         /\ inflight[t].pc = "fetch"
         /\ \E o \in ListOutcomes(inflight[t].provider, now) : FetchModels(t, o)
    \/ \E t \in Threads : StoreAndReturn(t)
    \/ Tick

SpecRace == InitRegistry /\ [][NextRace]_vars

(***************************************************************************)
(* Two callers inside _KeyPool.next at the same time.                      *)
(***************************************************************************)
NextDrawing ==
    \/ \E t \in Threads, p \in DOMAIN pools : PoolReadKey(t, p)
    \/ \E t \in Threads : PoolReadIndex(t)
    \/ \E t \in Threads : PoolWriteIndex(t)

SpecDrawing == InitRegistry /\ [][NextDrawing]_vars

(***************************************************************************)
(* Listings over one and two providers, one of them without an adapter,    *)
(* with fetches that return or raise.                                      *)
(***************************************************************************)
NextPartial ==
    \/ \E ps \in {<<"fal", "openai">>, <<"openai", "xai">>}, refresh \in BOOLEAN :
         \E outcomes \in OutcomesFor(ps, NoEnt, now) :
            ListModels(ps, refresh, NoEnt, outcomes)
    \/ \E ps \in {<<"bedrock">>}, refresh \in BOOLEAN :
         \E outcomes \in OutcomesFor(ps, NoEnt, now) :
            ListModelRecords(ps, refresh, NoEnt, outcomes)
    \/ Tick

SpecPartial == InitRegistry /\ [][NextPartial]_vars

(***************************************************************************)
(* Callers reading the learned status while failures are being learned.    *)
(***************************************************************************)
NextLearnedRace ==
    \/ \E t \in Threads, m \in {"gpt-4o", "gpt-4o-mini"} :
         LearnedRead(t, "openai", NoEnt, m)
    \/ \E t \in Threads : LearnedPop(t)
    \/ \E m \in {"gpt-4o", "gpt-4o-mini"} :
         Learn(NoEnt, "openai", m, HttpError(404, "upstream says no"))
    \/ Tick

SpecLearnedRace == InitRegistry /\ [][NextLearnedRace]_vars

(***************************************************************************)
(* Routing over the records of a listing, with failures learned before.    *)
(***************************************************************************)
NextRouter ==
    \/ \E m \in {"gpt-4o", "gpt-4o-mini"} :
         Learn(NoEnt, "openai", m, HttpError(404, "upstream says no"))
    \/ \E refresh \in BOOLEAN :
         ListModelRecords(<<"openai">>, refresh, NoEnt,
                          <<Returned(UpstreamCatalog("openai", now))>>)
    \/ \E caps \in [{"gpt-4o", "gpt-4o-mini"} ->
                      {ModelCapabilities(TRUE, TRUE, TRUE, <<>>),
                       ModelCapabilities(FALSE, FALSE, FALSE, <<"preview">>)}],
          constraints \in {NoConstraints,
                           ModelConstraints(TRUE, TRUE, TRUE, 4, FALSE),
                           ModelConstraints(FALSE, FALSE, FALSE, NoInt, TRUE)},
          preferred \in {<<>>, <<"  ", "gpt-4o">>, <<"openai:gpt-4o-mini", "gpt-4o">>} :
         Resolve(caps, ModelResolutionRequest(constraints, preferred))
    \/ Tick

SpecRouter == InitRegistry /\ [][NextRouter]_vars

(***************************************************************************)
(* Runs of the ReplicateClient against an upstream that returns or raises. *)
(***************************************************************************)
NextRun ==
    \/ RunBegin("t1")
    \/ \E exc \in {UpstreamError(429, NoInt, "boom"),
                   UpstreamError(NoInt, 404, "not found"),
                   UpstreamError(500, NoInt, "boom"),
                   UpstreamError(NoInt, NoInt, "Request was throttled"),
                   UpstreamError(NoInt, NoInt, "Rate limit exceeded"),
                   UpstreamError(NoInt, NoInt, "upstream returned 429")},
          returned \in BOOLEAN :
         RunAttempt("t1", returned, exc)

SpecRun == InitRegistry /\ [][NextRun]_vars

(***************************************************************************)
(* Properties                                                              *)
(***************************************************************************)
Range(seq) == {seq[i] : i \in 1..Len(seq)}

\* a step that is a call of the named operation
CallStep(op) == last'.n # last.n /\ last'.op = op

\* C1: for a pool of N >= 1 distinct keys the k-th next() returns
\* keys[(k-1) mod N], and any N consecutive calls return every key of the
\* pool exactly once.
C1_RoundRobin ==
    \A p \in DOMAIN pools :
        LET keys == pools[p]
            N == Len(keys)
            d == drawn[p]
        IN N >= 1 =>
            /\ \A k \in 1..Len(d) : d[k] = keys[((k - 1) % N) + 1]
            /\ \A s \in 1..Len(d) :
                 s + N - 1 <= Len(d) =>
                    \A i \in 1..N :
                        Cardinality({j \in s..(s + N - 1) : d[j] = keys[i]}) = 1

\* a pool of at least two keys has wrapped: call N+1 returned the key of call 1
C1_Witness ==
    \E p \in DOMAIN pools :
        /\ Len(pools[p]) >= 2
        /\ Len(drawn[p]) > Len(pools[p])
        /\ drawn[p][Len(pools[p]) + 1] = drawn[p][1]

\* the providers a listing call went through before it returned or raised
Processed(l) == DOMAIN l.served \cup Range(l.called)

\* C2: list_models calls adapter.list_models for a provider if and only if
\* refresh is set or the cache holds no entry with now < expires_at under
\* the cache key; a hit returns the cached entry and leaves it as it was; a
\* fetch that succeeds stores a new entry fetched at the time of the call.
C2_FetchIffRefreshOrNotLive ==
    [][CallStep("list_models") =>
        \A p \in Processed(last') :
            LET key == CacheKey(p, last'.ent)
                cached == CacheGet(cache, key)
                live == cached # NoEntry /\ now < cached.expires_at
            IN
            /\ (p \in Range(last'.called)) <=> (last'.refresh \/ ~live)
            /\ (~last'.refresh /\ live) =>
                  /\ last'.served[p] = cached
                  /\ CacheGet(cache', key) = cached
            /\ (p \in Range(last'.called) /\ p \notin Range(last'.failed)) =>
                  /\ last'.served[p].fetched_at = now
                  /\ last'.served[p].expires_at = now + TtlSeconds
                  /\ last'.served[p].data = MapCurated(UpstreamCatalog(p, now))
                  /\ CacheGet(cache', key) = last'.served[p]
      ]_vars

\* a hit at t = ttl_seconds - 1 on the entry populated at t = 0
C2_Witness ==
    /\ last.op = "list_models"
    /\ ~last.raised /\ ~last.refresh
    /\ last.called = <<>>
    /\ now = TtlSeconds - 1
    /\ "openai" \in DOMAIN last.served
    /\ last.served["openai"].fetched_at = 0

\* C3: when an entry exists under the cache key, however old, and the
\* adapter fetch raises, list_models returns that entry instead of raising;
\* the error propagates only when no entry exists for the key.
C3_StaleOnFailure ==
    [][CallStep("list_models") =>
        \A p \in Range(last'.failed) :
            LET cached == CacheGet(cache, CacheKey(p, last'.ent)) IN
            IF cached # NoEntry
            THEN /\ ~last'.raised
                 /\ p \in DOMAIN last'.served
                 /\ last'.served[p] = cached
            ELSE last'.raised
      ]_vars

\* the entitlements whose view of the cache is compared
PartitionProbes == {NoEnt, E1, E2}

\* the partition a request belongs to: its API-key fingerprint, or "default"
PartitionOf(ent) == IF ent = NoEnt THEN "default" ELSE ent.apiKeyFingerprint

\* the entry a request of this provider and entitlement would be served from
View(c, p, ent) == CacheGet(c, CacheKey(p, ent))

\* C4: cache entries are partitioned by cache key: the entry seen under one
\* API-key fingerprint changes only in a list_models call made under that
\* fingerprint, a fetched entry is stored in the partition of its request,
\* and a request without entitlement touches only "<provider>|default|||||".
C4_PartitionedByFingerprint ==
    [][/\ \A p \in Providers, e \in PartitionProbes :
            View(cache', p, e) # View(cache, p, e) =>
                /\ CallStep("list_models")
                /\ PartitionOf(last'.ent) = PartitionOf(e)
       /\ CallStep("list_models") =>
            /\ \A p \in Range(last'.called) \ Range(last'.failed) :
                    View(cache', p, last'.ent) = last'.served[p]
            /\ last'.ent = NoEnt =>
                    \A k \in DOMAIN cache' :
                        (k \notin DOMAIN cache \/ cache'[k] # cache[k]) =>
                            \E p \in Providers : k = p \o "|default|||||"
      ]_vars

\* the three partitions of one provider hold entries fetched at different times
C4_Witness ==
    /\ View(cache, "openai", NoEnt) # NoEntry
    /\ View(cache, "openai", E1) # NoEntry
    /\ View(cache, "openai", E2) # NoEntry
    /\ View(cache, "openai", E1).fetched_at < View(cache, "openai", E2).fetched_at
    /\ View(cache, "openai", E2).fetched_at < View(cache, "openai", NoEnt).fetched_at
    /\ Cardinality(DOMAIN cache) = 3

\* the learned entry a record was built from
LearnedOfRecord(l, ent, r) ==
    LearnedGet(l, LearnedKey(r.provider, ent, ModelText(r.providerModelId)))

\* C5: after learn_model_unavailable with a PROVIDER_NOT_FOUND error a
\* learned entry exists; list_model_records under the same provider and
\* entitlement, before the learned TTL has elapsed, reports the model with
\* entitled = false, confidence "learned" and the recorded reason, and every
\* model without a live learned entry with entitled = true, "listed".
C5_NotFoundIsLearned ==
    [][/\ (CallStep("learn_model_unavailable")
            /\ last'.err.kind = PROVIDER_NOT_FOUND) =>
            LET e == LearnedGet(learned',
                                LearnedKey(last'.provider, last'.ent, last'.model))
            IN e # NoLearned /\ e.expires_at = now + LearnedTtlSeconds
       /\ (CallStep("list_model_records") /\ ~last'.raised) =>
            \A i \in 1..Len(last'.result) :
                LET r == last'.result[i]
                    e == LearnedOfRecord(learned, last'.ent, r)
                IN
                /\ (e # NoLearned /\ now < e.expires_at) =>
                      /\ r.availability.entitled = FALSE
                      /\ r.availability.confidence = "learned"
                      /\ r.availability.reason = e.reason
                /\ (e = NoLearned \/ e.expires_at < now) =>
                      /\ r.availability.entitled = TRUE
                      /\ r.availability.confidence = "listed"
      ]_vars

\* C6: learn_model_unavailable with a PROVIDER_RATE_LIMIT or
\* PROVIDER_UNAVAILABLE error leaves the learned map unchanged.
C6_TransientNotLearned ==
    [][(CallStep("learn_model_unavailable")
         /\ last'.err.kind \in {PROVIDER_RATE_LIMIT, PROVIDER_UNAVAILABLE})
        => learned' = learned
      ]_vars

\* a rate-limit error was fed in and the model has no learned entry
C6_Witness ==
    /\ last.op = "learn_model_unavailable"
    /\ last.err.kind = PROVIDER_RATE_LIMIT
    /\ LearnedGet(learned, LearnedKey(last.provider, last.ent, last.model)) = NoLearned

\* C7: a learned entry recorded at time t expires at t + learned_ttl_seconds
\* and at every later time list_model_records reports the model with
\* entitled = true again.
C7_LearnedEntryExpires ==
    [][/\ CallStep("learn_model_unavailable") =>
            \A k \in DOMAIN learned' :
                (k \notin DOMAIN learned \/ learned'[k] # learned[k]) =>
                    learned'[k].expires_at = now + LearnedTtlSeconds
       /\ (CallStep("list_model_records") /\ ~last'.raised) =>
            \A i \in 1..Len(last'.result) :
                LET r == last'.result[i]
                    e == LearnedOfRecord(learned, last'.ent, r)
                IN (e # NoLearned /\ now > e.expires_at) =>
                      /\ r.availability.entitled = TRUE
                      /\ r.availability.confidence = "listed"
      ]_vars

\* a listing read an expired learned entry, dropped it, and reports the
\* model as entitled
C7_Witness ==
    /\ last.op = "list_model_records"
    /\ ~last.raised
    /\ last.popped # {}
    /\ now > LearnedTtlSeconds
    /\ \E i \in 1..Len(last.result) :
          /\ LearnedKey(last.result[i].provider, last.ent,
                        ModelText(last.result[i].providerModelId)) \in last.popped
          /\ last.result[i].availability.entitled = TRUE

\* a step that is one capability call of the Kit
KitStep == last'.n # last.n /\ last'.op \in CapabilityOps

\* C8: for generate, generate_image, generate_mesh, generate_speech and
\* transcribe, when the adapter's capability method raises, the Kit makes
\* the error a unified error (a unified error as it is, anything else as
\* UNKNOWN), calls learn_model_unavailable exactly once with the call's
\* entitlement, provider, model and that error, raises that error, returns
\* no value, and has called the adapter's method exactly once.
C8_LearnAndRethrow ==
    [][KitStep /\ last'.calls # <<>> /\ last'.adapterErr # NoError =>
        LET c == last'
            classified == IF c.adapterErr.kit THEN c.adapterErr
                          ELSE KitError(UNKNOWN, c.adapterErr.message, NoInt)
        IN
        /\ Len(c.calls) = 1
        /\ c.calls[1].method = c.op
        /\ c.learns = <<[ent |-> c.ent, provider |-> c.provider,
                         model |-> ModelText(c.model), err |-> classified]>>
        /\ learned' = LearnModelUnavailable(learned, c.ent, c.provider,
                                            ModelText(c.model), classified, now)
        /\ c.raised
        /\ c.err = classified
        /\ c.value = NoOutput]_vars

\* a pooled provider's method raised an exception that is not a unified
\* error, and a static provider's failure has been learned before
C8_Witness ==
    /\ last.op \in CapabilityOps
    /\ last.calls # <<>>
    /\ last.ent # NoEnt
    /\ last.adapterErr = OtherException("connection reset")
    /\ last.err.kind = UNKNOWN
    /\ LearnedKey("bedrock", NoEnt, "gpt-4o") \in DOMAIN learned

\* C9: generate_image, generate_mesh, generate_speech or transcribe on a
\* resolved adapter that has no such method raises UNSUPPORTED with a
\* message that names the provider, calls no method of the adapter, does
\* not call learn_model_unavailable and leaves the learned map as it was.
C9_UnsupportedBeforeAnyCall ==
    [][/\ KitStep
       /\ last'.op \in {"generate_image", "generate_mesh", "generate_speech",
                        "transcribe"}
       /\ last'.adapter # NoAdapter
       /\ last'.op \notin Methods(last'.adapter)
       =>
       /\ last'.raised
       /\ last'.err.kit
       /\ last'.err.kind = UNSUPPORTED
       /\ last'.err.message \in
            {"Provider " \o last'.provider \o " does not support " \o what :
                what \in {"image generation", "mesh generation",
                          "speech generation", "transcription"}}
       /\ last'.calls = <<>>
       /\ last'.learns = <<>>
       /\ last'.value = NoOutput
       /\ learned' = learned]_vars

\* transcribe on the replicate adapter built for a pool key, which has no
\* transcribe method, with a learned map that is not empty
C9_Witness ==
    /\ last.op = "transcribe"
    /\ last.provider = "replicate"
    /\ last.ent # NoEnt
    /\ last.adapter.origin = "entitlement"
    /\ last.raised
    /\ last.calls = <<>>
    /\ learned # <<>>

\* generate() whose adapter call returned
GenerateReturned ==
    last.op = "generate" /\ last.calls # <<>> /\ last.adapterErr = NoError

\* the usage block carries at least one token count
HasTokenCount(usage) ==
    usage # NoUsage /\ (usage.inputTokens # NoInt \/ usage.outputTokens # NoInt)

\* the returned value and the raw output agree on every field but cost
SameButCost(value, raw) ==
    /\ DOMAIN value = DOMAIN raw
    /\ \A f \in DOMAIN raw \ {"cost"} : value[f] = raw[f]

\* C10 as stated: the value generate() returns equals the adapter's raw
\* output in every field except cost, generate() does not raise, and cost
\* is set exactly when the output carries token counts and the curated
\* table has token prices for (provider, model).
C10_CostIffUsageAndPricing ==
    GenerateReturned =>
        /\ ~last.raised
        /\ SameButCost(last.value, last.raw)
        /\ (last.value.cost # NoCost <=>
                /\ HasTokenCount(last.raw.usage)
                /\ lookup_token_prices(last.provider, last.model) # NoPrices)

\* the token prices have an input or an output rate that is not zero
HasRate(prices) ==
    prices # NoPrices /\ (OrZero(prices.input) # 0 \/ OrZero(prices.output) # 0)

\* C10 (amended): the value generate() returns equals the adapter's raw
\* output in every field except cost, generate() does not raise, and cost
\* is set exactly when the output carries at least one token count and the
\* curated token prices for (provider, model) have a non-zero input or
\* output rate; otherwise cost stays unset.
C10_CostIffCountsAndRates ==
    GenerateReturned =>
        /\ ~last.raised
        /\ SameButCost(last.value, last.raw)
        /\ last.raw.cost = NoCost
        /\ (last.value.cost # NoCost <=>
                /\ HasTokenCount(last.raw.usage)
                /\ HasRate(lookup_token_prices(last.provider, last.model)))

\* generate() for a pool key returned with a cost attached
C10_Witness ==
    /\ GenerateReturned
    /\ last.ent # NoEnt
    /\ last.value.cost # NoCost
    /\ last.value.cost.total_cost_usd > 0
    /\ last.value.text = last.raw.text

\* C11: when the adapter's stream raises, as it is started or while its
\* chunks are consumed, stream_generate makes the error a unified error,
\* calls learn_model_unavailable once with the call's entitlement, provider,
\* model and that error, and raises that unified error.
C11_StreamLearnsAndRethrows ==
    [][(CallStep("stream_generate") /\ last'.calls # <<>>
          /\ last'.adapterErr # NoError) =>
        LET c == last'
            classified == IF c.adapterErr.kit THEN c.adapterErr
                          ELSE KitError(UNKNOWN, c.adapterErr.message, NoInt)
        IN
        /\ c.raised
        /\ c.err = classified
        /\ c.learns = <<[ent |-> c.ent, provider |-> c.provider,
                         model |-> ModelText(c.model), err |-> classified]>>
        /\ learned' = LearnModelUnavailable(learned, c.ent, c.provider,
                                            ModelText(c.model), classified, now)
      ]_vars

\* stream_generate whose adapter stream was started
StreamStarted == last.op = "stream_generate" /\ last.calls # <<>>

\* C12: the chunks stream_generate yields are as many as the adapter's and
\* in the same order; a chunk whose type is not message_end is the
\* adapter's chunk; a message_end chunk equals the adapter's chunk in every
\* field but cost, and its cost is set exactly when estimate_cost gives an
\* estimate for its usage, to that estimate.
C12_StreamPassThrough ==
    StreamStarted =>
        /\ Len(last.value) = Len(last.raw)
        /\ \A i \in 1..Len(last.raw) :
             LET estimate == estimate_cost(last.provider, last.model, last.raw[i].usage)
             IN
             IF last.raw[i].type # "message_end"
             THEN last.value[i] = last.raw[i]
             ELSE /\ SameButCost(last.value[i], last.raw[i])
                  /\ (last.value[i].cost # NoCost <=> estimate # NoCost)
                  /\ last.value[i].cost = estimate

\* a completed stream of a pool key: the delta came through as it was, the
\* message_end chunk carries a cost
C12_Witness ==
    /\ StreamStarted
    /\ ~last.raised
    /\ last.ent # NoEnt
    /\ Len(last.value) = 2
    /\ last.raw[1].type = "delta" /\ last.value[1] = last.raw[1]
    /\ last.raw[2].type = "message_end"
    /\ last.value[2].cost # NoCost
    /\ last.raw[2].cost = NoCost

\* C13: the entitlement a capability call resolves is none when the
\* provider has no key pool, and the pool is then not touched; otherwise
\* its provider is the call's provider, its apiKey is the key next() drew
\* from the provider's pool, and its apiKeyFingerprint is the SHA-256
\* fingerprint of that key, which is not the key itself.
C13_EntitlementForProvider ==
    [][KitStep =>
        LET p == last'.provider
            ent == last'.ent
        IN
        IF p \notin DOMAIN pools
        THEN ent = NoEnt /\ drawn' = drawn /\ index' = index
        ELSE /\ ent # NoEnt
             /\ ent.provider = p
             /\ ent.apiKey = pools[p][(index[p] % Len(pools[p])) + 1]
             /\ drawn' = [drawn EXCEPT ![p] = Append(drawn[p], ent.apiKey)]
             /\ ent.apiKeyFingerprint = Sha256Hex(ent.apiKey)
             /\ ent.apiKeyFingerprint # ent.apiKey
      ]_vars

\* the second call for a provider with two keys drew the second key
C13_Witness ==
    /\ last.op \in CapabilityOps
    /\ last.provider = "openai"
    /\ last.ent # NoEnt
    /\ last.ent.apiKey = "k2"
    /\ drawn["openai"] = <<"k1", "k2">>

\* C14 as stated: the adapter of an external factory that returns one is
\* used; otherwise, without an entitlement key, the static adapter of the
\* provider (none if it has none); otherwise none for a provider without a
\* base config, and else a new adapter of the provider's class whose
\* credential is the entitlement's key.
C14_ResolutionChain ==
    last.op = "_adapter_factory" =>
        LET a == last.adapter
            p == last.provider
            ent == last.ent
        IN
        IF last.external.configured /\ p \in last.external.serves
        THEN a = ExternalAdapter(last.external, p, ent) /\ a.origin = "external"
        ELSE IF ent = NoEnt \/ ent.apiKey = None \/ ent.apiKey = ""
        THEN a = IF p \in DOMAIN StaticAdapters THEN StaticAdapters[p] ELSE NoAdapter
        ELSE IF p \notin DOMAIN ConfigProviders
        THEN a = NoAdapter
        ELSE /\ a.origin = "entitlement"
             /\ a.cls = AdapterClass[p]
             /\ a.api_key = ent.apiKey

\* C14 (amended): as C14, but the new adapter carries the entitlement's key
\* for every provider except bedrock; the new bedrock adapter is built from
\* the base config alone and the entitlement's key is not used.
C14_ResolutionChainBedrockKeyless ==
    last.op = "_adapter_factory" =>
        LET a == last.adapter
            p == last.provider
            ent == last.ent
        IN
        IF last.external.configured /\ p \in last.external.serves
        THEN a = ExternalAdapter(last.external, p, ent) /\ a.origin = "external"
        ELSE IF ent = NoEnt \/ ent.apiKey = None \/ ent.apiKey = ""
        THEN a = IF p \in DOMAIN StaticAdapters THEN StaticAdapters[p] ELSE NoAdapter
        ELSE IF p \notin DOMAIN ConfigProviders
        THEN a = NoAdapter
        ELSE /\ a.origin = "entitlement"
             /\ a.cls = AdapterClass[p]
             /\ a # StaticAdapters[p]
             /\ IF p = "bedrock"
                THEN a.api_key = PreparedProviders[p].api_key /\ a.api_key # ent.apiKey
                ELSE a.api_key = ent.apiKey

\* the external factory declined a provider it does not serve and the
\* chain built a new adapter with the entitlement's key
C14_Witness ==
    /\ last.op = "_adapter_factory"
    /\ last.external.configured
    /\ last.external.serves # {}
    /\ last.provider = "replicate"
    /\ last.ent # NoEnt
    /\ last.adapter.origin = "entitlement"
    /\ last.adapter.api_key = "k9"

\* C15: a capability call that drew key k and whose adapter sent a request
\* upstream was served by a newly built adapter, not the one of the static
\* map, and the request carried exactly k, also when another call for the
\* same provider ran in between.
C15_ServedWithOwnKey ==
    (/\ last.op \in CapabilityOps
     /\ last.calls # <<>>
     /\ last.op \notin StubMethods(last.adapter)
     /\ last.ent # NoEnt) =>
        /\ last.adapter.origin = "entitlement"
        /\ \A p \in DOMAIN StaticAdapters : StaticAdapters[p] # last.adapter
        /\ last.credential = last.ent.apiKey

\* a listing call that returned
Listed == last.op \in {"list_models", "list_model_records"} /\ ~last.raised

\* the number of positions of seq that satisfy Test
CountWhere(seq, Test(_)) == Cardinality({i \in 1..Len(seq) : Test(seq[i])})

RECURSIVE TotalModels(_, _)
\* the number of models in the entries of the providers in ps
TotalModels(served, ps) ==
    IF ps = {} THEN 0
    ELSE LET p == CHOOSE q \in ps : TRUE
         IN Len(served[p].data) + TotalModels(served, ps \ {p})

\* (provider, displayName) of a is not greater than that of b
KeyNotGreater(a, b) ==
    \/ StrRank(a.provider) < StrRank(b.provider)
    \/ /\ a.provider = b.provider
       /\ StrRank(a.displayName) <= StrRank(b.displayName)

\* C16: a listing that returns holds an entry for exactly the resolved
\* providers, its result has as many elements as these entries have models,
\* every model of every entry occurs in it as often as in its entry (as the
\* model itself for list_models, as the record of that provider and model
\* id for list_model_records), and it is in non-decreasing order of
\* (provider, displayName).
C16_UnionSorted ==
    Listed =>
        LET resolved == ResolveProviders(last.providers, last.ent)
            served == last.served
            res == last.result
        IN
        /\ DOMAIN served = {resolved[i] : i \in 1..Len(resolved)}
        /\ Len(res) = TotalModels(served, DOMAIN served)
        /\ \A p \in DOMAIN served : \A k \in 1..Len(served[p].data) :
             LET m == served[p].data[k] IN
             IF last.op = "list_models"
             THEN CountWhere(res, LAMBDA x : x = m)
                    = CountWhere(served[p].data, LAMBDA x : x = m)
             ELSE CountWhere(res, LAMBDA x : x.provider = p /\ x.providerModelId = m.id
                                              /\ x.displayName = m.displayName)
                    = CountWhere(served[p].data, LAMBDA x : x.id = m.id)
        /\ \A i \in 1..Len(res) : \A j \in i..Len(res) : KeyNotGreater(res[i], res[j])

\* a listing over two providers whose entries, in call order, are not in
\* sorted order
C16_Witness ==
    /\ Listed
    /\ last.providers = <<"fal", "openai">>
    /\ Len(last.result) = 3
    /\ last.result[1].provider = "fal"
    /\ last.result[2].displayName # last.served["openai"].data[1].displayName

\* C17: a listing call without providers and without entitlement on a
\* registry that has no adapter raises a VALIDATION error, returns no list
\* and leaves the cache as it was.
C17_NoProvidersRaises ==
    [][(/\ last'.n # last.n
        /\ last'.op \in {"list_models", "list_model_records"}
        /\ last'.providers = <<>>
        /\ last'.ent = NoEnt
        /\ last'.adapters = <<>>)
       => (/\ last'.raised
           /\ last'.err.kit
           /\ last'.err.kind = VALIDATION
           /\ last'.result = <<>>
           /\ last'.called = <<>>
           /\ cache' = cache)]_vars

\* such a call was made while the cache held an entry
C17_Witness ==
    /\ last.op = "list_model_records"
    /\ last.providers = <<>>
    /\ last.ent = NoEnt
    /\ last.adapters = <<>>
    /\ last.raised
    /\ cache # <<>>

\* C18: the status of an error response is a function of the kind of the
\* unified error alone: 400 for VALIDATION and UNSUPPORTED, 401 for
\* PROVIDER_AUTH, 429 for PROVIDER_RATE_LIMIT, 503 for PROVIDER_UNAVAILABLE,
\* 500 for PROVIDER_NOT_FOUND, TIMEOUT and UNKNOWN; every kind has a status.
C18_StatusOfKind ==
    last.op = "_send_json_error" =>
        LET kind == last.kit_err.kind IN
        /\ kind \in ErrorKinds
        /\ kind \in {VALIDATION, UNSUPPORTED} <=> last.status = 400
        /\ kind = PROVIDER_AUTH <=> last.status = 401
        /\ kind = PROVIDER_RATE_LIMIT <=> last.status = 429
        /\ kind = PROVIDER_UNAVAILABLE <=> last.status = 503
        /\ kind \in {PROVIDER_NOT_FOUND, TIMEOUT, UNKNOWN} <=> last.status = 500

\* an upstream 404, classified PROVIDER_NOT_FOUND, answered with 500
C18_Witness ==
    /\ last.op = "_send_json_error"
    /\ last.kit_err.kind = PROVIDER_NOT_FOUND
    /\ last.kit_err.upstreamStatus = 404
    /\ last.status = 500

\* the raw entries of a config, api_key first
RawKeys(cfg) == <<OrEmpty(cfg.api_key)>> \o cfg.api_keys

\* the text an entry contributes, "" if it contributes none
Trimmed(raw) == IF raw \in {None, NonString} THEN "" ELSE Strip(raw)

\* the position of the first entry whose trimmed text is key
FirstAt(raws, key) ==
    CHOOSE i \in 1..Len(raws) :
        Trimmed(raws[i]) = key /\ \A j \in 1..(i - 1) : Trimmed(raws[j]) # key

\* C19: the keys collected from a config are exactly the non-empty trimmed
\* texts of its string entries, api_key first, each once, in the order of
\* their first occurrence; a provider with keys gets a pool with this list
\* and a static adapter configured with its first key.
C19_KeysTrimmedDistinctInOrder ==
    last.op = "_prepare_providers" =>
        LET raws == RawKeys(last.cfg)
            keys == last.keys
        IN
        /\ {keys[i] : i \in 1..Len(keys)}
             = {Trimmed(raws[i]) : i \in 1..Len(raws)} \ {""}
        /\ \A i, j \in 1..Len(keys) : i < j =>
             /\ keys[i] # keys[j]
             /\ FirstAt(raws, keys[i]) < FirstAt(raws, keys[j])
        /\ Len(keys) > 0 =>
             /\ ~last.raised
             /\ last.pool = keys
             /\ last.adapter.origin = "static"
             /\ last.adapter.api_key = keys[1]
        /\ Len(keys) = 0 => last.pool = <<>>

\* a config whose api_keys repeat the padded api_key and hold a blank and a
\* non-string entry before a second key
C19_Witness ==
    /\ last.op = "_prepare_providers"
    /\ last.cfg.api_key = " k1 "
    /\ last.cfg.api_keys = <<"k1", NonString, "k2">>
    /\ last.keys = <<"k1", "k2">>
    /\ last.adapter.api_key = "k1"

\* C20: learn_model_unavailable writes an entry exactly when the error is a
\* unified error of kind PROVIDER_NOT_FOUND or VALIDATION or with upstream
\* status 400, 403 or 404; it then sets the entry of (cache key, model id)
\* to (now + learned_ttl_seconds, reason) and leaves every other entry as it
\* was; for every other error the learned map is unchanged.
C20_LearnsIffNotFoundOrValidation ==
    [][CallStep("learn_model_unavailable") =>
        LET err == last'.err
            key == LearnedKey(last'.provider, last'.ent, last'.model)
        IN
        IF err.kit /\ (\/ err.kind \in {PROVIDER_NOT_FOUND, VALIDATION}
                       \/ err.upstreamStatus \in {400, 403, 404})
        THEN /\ DOMAIN learned' = DOMAIN learned \cup {key}
             /\ learned'[key].expires_at = now + LearnedTtlSeconds
             /\ learned'[key].reason = err.message
             /\ \A k \in DOMAIN learned \ {key} : learned'[k] = learned[k]
        ELSE learned' = learned
      ]_vars

\* C21: every cache entry has expires_at = fetched_at + ttl_seconds, and a
\* listing serves an entry it did not fetch in this call only while
\* now < expires_at of that entry.
C21_EntryLifetime ==
    [][/\ \A k \in DOMAIN cache' :
            cache'[k].expires_at = cache'[k].fetched_at + TtlSeconds
       /\ ((CallStep("list_models") \/ CallStep("list_model_records"))
            /\ ~last'.raised) =>
            \A p \in DOMAIN last'.served :
               LET fetched == \E i \in 1..Len(last'.called) : last'.called[i] = p
                   failed == \E i \in 1..Len(last'.failed) : last'.failed[i] = p
               IN (~fetched \/ failed) =>
                    /\ now < last'.served[p].expires_at
                    /\ last'.served[p] = CacheGet(cache, CacheKey(p, last'.ent))
      ]_vars

\* after a learn call, a refreshing listing whose fetch failed served the
\* entry cached earlier
C21_Witness ==
    /\ last.op = "list_models"
    /\ ~last.raised
    /\ last.failed = <<"openai">>
    /\ learned # <<>>
    /\ last.served["openai"].fetched_at < now

\* C22: when Kit.generate for provider p and model m has just failed with a
\* PROVIDER_NOT_FOUND error, the next Kit.list_model_records for p, asked
\* without an entitlement, reports m with entitled = false and confidence
\* "learned", for a provider with a key pool as for one without.
C22_FailureFeedsListing ==
    [][(/\ last.op = "generate"
        /\ last.raised
        /\ last.err.kind = PROVIDER_NOT_FOUND
        /\ last.err.message # ""
        /\ CallStep("list_model_records")
        /\ last'.providers = <<last.provider>>
        /\ last'.ent = NoEnt
        /\ ~last'.raised)
       => \A i \in 1..Len(last'.result) :
             last'.result[i].providerModelId = last.model =>
                /\ last'.result[i].availability.entitled = FALSE
                /\ last'.result[i].availability.confidence = "learned"
      ]_vars

\* C23: a capability call (stream_generate included) for a provider with a
\* key pool draws exactly one key, the one at position (k-1) mod N for the
\* k-th such call, whatever the call then does, and moves no other
\* provider's cursor; a call for a provider without a pool and a listing
\* draw nothing.
C23_OneDrawPerCall ==
    [][/\ (KitStep \/ CallStep("stream_generate")) =>
            LET p == last'.provider IN
            IF p \in DOMAIN pools
            THEN LET N == Len(pools[p])
                     key == pools[p][(Len(drawn[p]) % N) + 1]
                 IN /\ drawn' = [drawn EXCEPT ![p] = Append(drawn[p], key)]
                    /\ index' = [index EXCEPT ![p] = (index[p] + 1) % N]
                    /\ last'.ent # NoEnt
                    /\ last'.ent.apiKey = key
            ELSE drawn' = drawn /\ index' = index
       /\ (CallStep("list_models") \/ CallStep("list_model_records")) =>
            drawn' = drawn /\ index' = index
      ]_vars

\* the third call for replicate raised UNSUPPORTED and drew the first key
\* again, after a call for openai
C23_Witness ==
    /\ last.op = "generate_mesh"
    /\ last.raised
    /\ last.err.kind = UNSUPPORTED
    /\ drawn["replicate"] = <<"rk", "rk2", "rk">>
    /\ drawn["openai"] = <<"k1">>

\* C24: when list_models calls for one cache key overlap, each caller that
\* fetched stores and returns the entry it built itself, with expires_at =
\* fetched_at + ttl_seconds, the store touches no other key, and the cache
\* holds under the key the entry of the caller that wrote last.
C24_LastWriterWins ==
    [][/\ \A t \in Threads :
            (inflight[t].pc = "store" /\ inflight'[t].pc = "returned") =>
               LET e == inflight[t].entry
                   key == inflight[t].key
               IN /\ inflight'[t].entry = e
                  /\ e.expires_at = e.fetched_at + TtlSeconds
                  /\ DOMAIN cache' = DOMAIN cache \cup {key}
                  /\ cache'[key] = e
                  /\ \A k \in DOMAIN cache \ {key} : cache'[k] = cache[k]
                  /\ last'.thread = t
       /\ last'.op = "_fetch_and_cache" => cache'[last'.key] = last'.entry
      ]_vars

\* both callers missed on the openai key and fetched; t1 built its entry
\* first and wrote last, so the cache holds the older listing while t2
\* returned the newer one; the bedrock entry stored before is still there
C24_Witness ==
    /\ inflight["t1"].pc = "returned" /\ inflight["t2"].pc = "returned"
    /\ inflight["t1"].fetched /\ inflight["t2"].fetched
    /\ inflight["t1"].key = CacheKey("openai", NoEnt)
    /\ inflight["t2"].key = inflight["t1"].key
    /\ inflight["t1"].entry.fetched_at < inflight["t2"].entry.fetched_at
    /\ inflight["t1"].entry.data # inflight["t2"].entry.data
    /\ last.op = "_fetch_and_cache" /\ last.thread = "t1"
    /\ cache[inflight["t1"].key] = inflight["t1"].entry
    /\ CacheKey("bedrock", NoEnt) \in DOMAIN cache

\* C25: however two callers interleave inside next(), the cursor of a pool
\* of N keys stays within 0..N-1 and every key handed out, or about to be,
\* is a key of that pool.
C25_CursorAndKeysInRange ==
    /\ \A p \in DOMAIN pools :
          /\ index[p] \in 0..(Len(pools[p]) - 1)
          /\ Range(drawn[p]) \subseteq Range(pools[p])
    /\ \A t \in Drawing : inflight[t].key \in Range(pools[inflight[t].provider])

\* the lost update: two callers received the same key of the two-key pool
\* and the cursor advanced once, so the two consecutive draws left out k2
C25_Witness ==
    /\ Drawing = {}
    /\ drawn["openai"] = <<"k1", "k1">>
    /\ index["openai"] = 1
    /\ drawn["replicate"] = <<>>

\* a step that is a list_models or a list_model_records call
ListStep == CallStep("list_models") \/ CallStep("list_model_records")

\* C26, as stated: a listing call in which an adapter fetch raises, or an
\* adapter cannot be resolved, leaves the cache map as it was.
C26_FailedCallLeavesCache ==
    [][(ListStep /\ (last'.failed # <<>>
                     \/ (last'.raised /\ last'.err.kind = VALIDATION)))
         => cache' = cache]_vars

\* C26, amended: a listing call removes no entry and adds or alters only
\* the entries under the cache keys of providers whose fetch succeeded in
\* that call, each stamped with the time of the call; a call for a single
\* provider whose fetch raises or whose adapter cannot be resolved leaves
\* the cache map as it was.
C26_OnlyFetchedKeysChange ==
    [][ListStep =>
         /\ DOMAIN cache \subseteq DOMAIN cache'
         /\ \A k \in DOMAIN cache' :
               (k \notin DOMAIN cache \/ cache'[k] # CacheGet(cache, k)) =>
                  /\ \E p \in Range(last'.called) \ Range(last'.failed) :
                        k = CacheKey(p, last'.ent)
                  /\ cache'[k].fetched_at = now
         /\ \A p \in Range(last'.failed) :
               CacheGet(cache', CacheKey(p, last'.ent))
                 = CacheGet(cache, CacheKey(p, last'.ent))
         /\ (Len(last'.providers) = 1 /\ (last'.failed # <<>> \/ last'.raised))
               => cache' = cache
      ]_vars

\* the fetch for openai raised with nothing cached for it, after the entry
\* for fal had been stored in the same call
C26_Witness ==
    /\ last.op = "list_models"
    /\ last.providers = <<"fal", "openai">>
    /\ last.called = <<"fal", "openai">>
    /\ last.failed = <<"openai">>
    /\ last.raised
    /\ DOMAIN cache = {CacheKey("fal", NoEnt)}

\* C29: in a listing over several providers, a fetch that raises with no
\* servable entry cached for its provider makes the whole call raise that
\* error with no list returned; the entries fetched earlier in the same
\* call are stored all the same, and a later call without refresh serves a
\* stored entry that is still live as a hit, without a fetch.
C29_NoPartialList ==
    [][ListStep =>
         LET key(p) == CacheKey(p, last'.ent) IN
         /\ (\E p \in Range(last'.failed) :
                ~FallbackIsServable(CacheGet(cache, key(p)), now)) =>
               /\ last'.raised
               /\ last'.err \in FetchErrors
               /\ last'.result = <<>>
               /\ last'.failed[Len(last'.failed)] = last'.called[Len(last'.called)]
         /\ \A p \in Range(last'.called) \ Range(last'.failed) :
               cache'[key(p)] = CacheEntry(MapCurated(UpstreamCatalog(p, now)),
                                           now, now + TtlSeconds)
         /\ \A p \in DOMAIN last'.served :
               (~last'.refresh /\ CachedIsLive(CacheGet(cache, key(p)), now)) =>
                  /\ p \notin Range(last'.called)
                  /\ last'.served[p] = cache[key(p)]
                  /\ cache'[key(p)] = cache[key(p)]
      ]_vars

\* the entry for fal stored at time 0 by a call that raised on openai was
\* served as a hit at time 1, when only openai was fetched
C29_Witness ==
    /\ last.op = "list_models"
    /\ last.providers = <<"fal", "openai">>
    /\ ~last.raised
    /\ last.called = <<"openai">>
    /\ last.failed = <<>>
    /\ last.served["fal"].fetched_at = 0
    /\ last.served["openai"].fetched_at = 1
    /\ cache[CacheKey("fal", NoEnt)].fetched_at = 0

\* C27: a read of the learned status removes an entry only if that entry
\* has expired, and no step of a read removes or alters an entry that has
\* not expired, whatever learn_model_unavailable does in between.
C27_ReadRemovesOnlyExpired ==
    [][~CallStep("learn_model_unavailable") =>
         \A k \in DOMAIN learned :
            ~(learned[k].expires_at < now) =>
               k \in DOMAIN learned' /\ learned'[k] = learned[k]]_vars

\* the records resolve returned: the primary, then the fallback list
Selected(r) ==
    IF r.raised THEN <<>>
    ELSE IF r.fallback = None THEN <<r.primary>> ELSE <<r.primary>> \o r.fallback

\* C28: resolve returns only entitled records, as primary and as fallback;
\* over the records of a listing it selects no model that has a live
\* learned-unavailable entry, and it raises when no record passes the
\* filters, in particular when every record is unentitled.
C28_OnlyEntitledSelected ==
    [][CallStep("resolve") =>
         LET r == last'
             chosen == Selected(r)
             preferred == StripNonEmpty(r.request.preferredModels)
             live(m) ==
                LET e == LearnedGet(learned, LearnedKey(m.provider, r.ent,
                                                        ModelText(m.providerModelId)))
                IN e # NoLearned /\ ~(e.expires_at < now)
         IN /\ \A i \in 1..Len(chosen) :
                  /\ chosen[i].availability.entitled
                  /\ chosen[i] \in Range(r.models)
                  /\ ~live(chosen[i])
            /\ ~r.raised => Len(chosen) >= 1 /\ r.primary = chosen[1]
            /\ r.raised <=> \A i \in 1..Len(r.models) :
                              ~matches(r.models[i], r.request, preferred)
            /\ (\A i \in 1..Len(r.models) : ~r.models[i].availability.entitled)
                  => r.raised
      ]_vars

\* gpt-4o has a live learned entry and is listed unentitled; resolve, asked
\* for no particular model, returned gpt-4o-mini alone
C28_Witness ==
    /\ last.op = "resolve"
    /\ ~last.raised
    /\ Len(last.models) = 2
    /\ \E i \in 1..2 : /\ last.models[i].id = "openai:gpt-4o"
                       /\ ~last.models[i].availability.entitled
    /\ last.primary.id = "openai:gpt-4o-mini"
    /\ last.fallback = None
    /\ LearnedKey("openai", NoEnt, "gpt-4o") \in DOMAIN learned

\* a pass of the loop of run that ends in a retry
RetryStep(t) ==
    /\ inflight[t].pc = "run"
    /\ inflight'[t].pc = "run"
    /\ inflight'[t].attempt = inflight[t].attempt + 1

\* an earlier error of the run, or this one, was recognised as throttling
SawThrottle(seen) == \E i \in 1..Len(seen) : is_throttle(seen[i])

\* C30, as stated: run retries only an error recognised as throttling
\* (status 429 or a throttle / rate-limit message) or a 404 that follows an
\* earlier throttle error of the same run.
C30_RetriesOnlyThrottle ==
    [][RetryStep("t1") =>
         LET seen == inflight'["t1"].seen
             exc == seen[Len(seen)]
         IN \/ is_throttle(exc)
            \/ StatusOf(exc) = 404 /\ SawThrottle(SubSeq(seen, 1, Len(seen) - 1))
      ]_vars

\* C30, amended: run makes at most max_retries + 1 upstream attempts; it
\* retries an error only while the attempt count is below max_retries and
\* the error has status 429, or a message holding "throttl", "rate limit"
\* or "429", or status 404 after an error recognised as throttling (status
\* 429, "throttl" or "rate limit"); any other error, and any error once the
\* attempt count has reached max_retries, is raised at once, as the error
\* of the last attempt.
C30_BoundedRetries ==
    [][/\ RetryStep("t1") =>
            LET seen == inflight'["t1"].seen
                exc == seen[Len(seen)]
            IN /\ inflight["t1"].attempt < MaxRetries
               /\ Len(seen) = inflight'["t1"].attempt
               /\ \/ StatusOf(exc) = 429
                  \/ LowerContains(exc.message, "throttl")
                  \/ LowerContains(exc.message, "rate limit")
                  \/ LowerContains(exc.message, "429")
                  \/ StatusOf(exc) = 404 /\ SawThrottle(SubSeq(seen, 1, Len(seen) - 1))
       /\ CallStep("run") =>
            /\ last'.attempts <= MaxRetries + 1
            /\ last'.attempts = last'.attempt + 1
            /\ last'.raised =>
                 LET exc == last'.seen[Len(last'.seen)] IN
                 /\ Len(last'.seen) = last'.attempts
                 /\ \/ last'.attempt = MaxRetries
                    \/ /\ StatusOf(exc) # 429
                       /\ ~LowerContains(exc.message, "throttl")
                       /\ ~LowerContains(exc.message, "rate limit")
                       /\ ~LowerContains(exc.message, "429")
                       /\ ~(StatusOf(exc) = 404
                            /\ SawThrottle(SubSeq(last'.seen, 1, Len(last'.seen) - 1)))
      ]_vars

\* a run that retried an error whose message holds "429", then a 429 and
\* gave up on the 404 of its last allowed attempt
C30_Witness ==
    /\ last.op = "run"
    /\ last.raised
    /\ last.attempts = MaxRetries + 1
    /\ last.seen[1] = UpstreamError(NoInt, NoInt, "upstream returned 429")
    /\ StatusOf(last.seen[Len(last.seen)]) = 404
    /\ last.saw_throttle

====
